---------------------------- MODULE Spec2Model ----------------------------
(***************************************************************************)
(* QR Master Pro: the generator component (QrGenerator), its validation    *)
(* loop, art overlay and batch export, and the Link Folio codec shared by  *)
(* the generator and the viewer page (FolioPage).                          *)
(*                                                                         *)
(* A React commit is one step: the handler's state updates, the re-render  *)
(* (which mounts or unmounts the conditional surface <div>) and the        *)
(* effects whose dependencies changed run together, in source order.       *)
(* Timers and the continuations of awaited promises are steps of their     *)
(* own.                                                                    *)
(***************************************************************************)
EXTENDS Integers, Sequences, FiniteSets, TLC

(***************************************************************************)
(* Bounds of the model.                                                    *)
(***************************************************************************)
\* texts a form field can hold: 0 is the empty string, 1 is the default
\* 'https://ai.google.dev', MaxText is a text holding a lone surrogate
MaxText == 2
\* style configurations: 0 renders a raster the decoder reads back, 1 a raster
\* in which no code is found, every other one a raster read as another text
MaxStyle == 2
\* payload changes counted between two completed checks
MaxBurst == 2
\* links in a Link Folio form
MaxLinks == 2
\* overlay validations the user starts
MaxValidations == 2

Texts == 0..MaxText
Styles == 0..MaxStyle

VARIABLES
    \* ---- QrGenerator: React state
    qrType, qrData, qrValue, qrStyleOptions, error, aiQrImage,
    validationStatus, standardQrValidationStatus, isLoading,
    isExporting, exportProgress,
    \* ---- QrGenerator: refs, DOM and pending tasks
    qrContainerRef, qrCodeStyling, validationTimeout,
    \* ---- QrGenerator: suspended async handlers and pending image loads
    artTask, aiValidation, exportTask,
    \* ---- the JavaScript engine the page runs on
    wellFormedStringify,
    \* ---- history: the last completed standard check, and the number of
    \* payload changes since a check last completed
    lastCheck, edits,
    \* ---- history: the payload the overlay status was computed against,
    \* the number of overlay checks started, and the last one that completed
    overlayFor, overlayStarted, lastOverlay,
    \* ---- FolioCodec: the Link Folio form in full and the address of the
    \* generator's page, the payload encoded from them, what the visitor's
    \* link carries, and the page the visitor's browser shows
    folioForm, pageAddress, folioPayload, inbound, viewer,
    \* ---- PayloadEncoder: a form of some kind in full, and the payload the
    \* payload effect makes of it
    encoder,
    \* ---- QrScanner: the component's state, the video element's stream, the
    \* camera's streams and the handlers in flight
    scanner

genVars == <<qrType, qrData, qrValue, qrStyleOptions, error, aiQrImage,
             validationStatus, standardQrValidationStatus, isLoading,
             isExporting, exportProgress, qrContainerRef, qrCodeStyling,
             validationTimeout, artTask, aiValidation, exportTask,
             wellFormedStringify, lastCheck, edits, overlayFor, overlayStarted,
             lastOverlay>>

folioVars == <<folioForm, pageAddress, folioPayload, inbound, viewer, encoder>>

\* the history of the overlay checks
overlayHistory == <<overlayFor, overlayStarted, lastOverlay>>

\* what no handler of QrGenerator changes
scannerVars == <<scanner>>

fixedVars == <<wellFormedStringify, folioVars, scannerVars>>

vars == <<genVars, folioVars, scannerVars>>

(***************************************************************************)
(* PayloadEncoder, as far as the component's state machine needs it: the   *)
(* payload is 0 for the empty string, the text itself for the URL kind and *)
(* a distinct non-empty address for every Link Folio name.                 *)
(***************************************************************************)
QrCodeType == {"url", "linkFolio"}

HasLoneSurrogate(t) == t = MaxText

\* utf8ToBase64: encodeURIComponent throws on a lone surrogate; whether the
\* JSON text still holds one depends on JSON.stringify being well-formed
Utf8ToBase64Throws(name) == HasLoneSurrogate(name) /\ ~wellFormedStringify

FolioUrl(name) == MaxText + 1 + name

\* the switch of the payload effect: [ok, value]
EncodeValue(type, data) ==
    IF type = "url" THEN [ok |-> TRUE, value |-> data.text]
    ELSE IF Utf8ToBase64Throws(data.text) THEN [ok |-> FALSE, value |-> 0]
    ELSE [ok |-> TRUE, value |-> FolioUrl(data.text)]

Payloads == 0..(2 * MaxText + 1)

\* aiQrImage: null, or the art image generated from the raster of payload
\* `data`; `readable` tells whether the decoder still finds that payload in it
NoImage == [has |-> FALSE, data |-> 0, readable |-> FALSE]

NoError == "none"

\* no overlay check has completed.  Of a completed one: the payload and the
\* image its click captured, and whether the image loaded
NoOverlayCheck ==
    [ran |-> FALSE, captured |-> 0, image |-> NoImage, loaded |-> FALSE]

\* the decoding capability on a raster rendered from (data, style)
JsQR(raster) ==
    IF raster.style = 0 THEN [found |-> TRUE, data |-> raster.data]
    ELSE IF raster.style = 1 THEN [found |-> FALSE, data |-> 0]
    ELSE [found |-> TRUE, data |-> -1]


\* handleGenerateArt, not running
ArtIdle == [pc |-> "idle", data |-> 0]

\* handleBatchExport, not running.  `image` is the aiQrImage of the render the
\* handler was created in; png, svg and ai are the archive's entries (the
\* payload each was captured from, -1 when absent); log, stages, errors and
\* offered record what the export reported, started, surfaced and delivered
ExportIdle ==
    [pc |-> "idle", image |-> NoImage, png |-> -1, svg |-> -1, ai |-> -1,
     log |-> <<>>, stages |-> <<>>, errors |-> 0, offered |-> FALSE,
     failed |-> FALSE]

\* what the retained rendering instance currently draws
Raster == [data |-> qrCodeStyling.data, style |-> qrCodeStyling.style]

(***************************************************************************)
(* Initial state: the component as mounted.  The surface <div> exists (the *)
(* initial payload is not empty), so the init effect creates the rendering  *)
(* instance and appends it; the validation effect schedules the first      *)
(* check.                                                                  *)
(***************************************************************************)
InitGenerator ==
    /\ qrType = "url"
    /\ qrData = [text |-> 1, blankLink |-> FALSE]
    /\ qrValue = 1
    /\ qrStyleOptions = 0
    /\ error = NoError
    /\ aiQrImage = NoImage
    /\ validationStatus = "idle"
    /\ standardQrValidationStatus = "idle"
    /\ isLoading = FALSE
    /\ isExporting = FALSE
    /\ exportProgress = -1
    /\ qrContainerRef = "div"
    /\ qrCodeStyling = [exists |-> TRUE, data |-> 1, style |-> 0]
    /\ validationTimeout = {[qrValue |-> 1]}
    /\ artTask = ArtIdle
    /\ aiValidation = {}
    /\ exportTask = ExportIdle
    /\ wellFormedStringify \in BOOLEAN
    /\ lastCheck = [ran |-> FALSE, captured |-> 0, live |-> 0, style |-> 0,
                    capture |-> "ok", burst |-> 0]
    /\ edits = 0
    /\ overlayFor = -1
    /\ overlayStarted = 0
    /\ lastOverlay = NoOverlayCheck

(***************************************************************************)
(* The render and the effects that depend on [qrValue, qrStyleOptions].    *)
(***************************************************************************)
\* a surface that is unmounted with the placeholder and mounted anew: the new
\* node is not the one the instance was appended to
RenderContainerRemounts(value, container) ==
    IF value = 0 THEN "null"
    ELSE IF container = "null" THEN "remounted" ELSE container

\* {qrValue ? <div ref={qrContainerRef}/> : <div>placeholder</div>}: both
\* branches are a <div> at the same place, so React keeps the DOM node the
\* instance was appended to; the ref is null while the placeholder is shown
RenderContainer(value, container) ==
    IF value = 0 THEN "null" ELSE "div"

\* qrCodeStyling.current.update({data: qrValue, ...qrStyleOptions})
UpdateInstance(instance, value, style) ==
    IF instance.exists
    THEN [exists |-> TRUE, data |-> value, style |-> style]
    ELSE instance

\* a cleanup that forgets clearTimeout
ValidationCleanupKeepsTimer(timers) == timers

\* return () => clearTimeout(validationTimeout)
ValidationCleanup(timers) == {}

\* if (!qrValue || !qrCodeStyling.current) { setStandardQrValidationStatus('idle'); return; }
NothingToValidate(value, instance) == value = 0 \/ ~instance.exists

\* the commit of a render in which qrValue or qrStyleOptions may have changed
RenderEffects(value, style) ==
    IF value = qrValue /\ style = qrStyleOptions
    THEN UNCHANGED <<qrContainerRef, qrCodeStyling, validationTimeout,
                     standardQrValidationStatus>>
    ELSE /\ qrContainerRef' = RenderContainer(value, qrContainerRef)
         /\ qrCodeStyling' = UpdateInstance(qrCodeStyling, value, style)
         /\ IF NothingToValidate(value, qrCodeStyling')
            THEN /\ validationTimeout' = ValidationCleanup(validationTimeout)
                 /\ standardQrValidationStatus' = "idle"
            ELSE /\ validationTimeout' =
                        ValidationCleanup(validationTimeout) \cup {[qrValue |-> value]}
                 /\ UNCHANGED standardQrValidationStatus

(***************************************************************************)
(* The payload effect, [qrData, qrType].                                   *)
(***************************************************************************)
\* setQrValue(currentQrValue => ...): the overlay is dropped when the value changes
PayloadChanged(current, value) == current # value

PayloadEffect(type, data) ==
    LET r == EncodeValue(type, data) IN
    IF r.ok
    THEN /\ error' = NoError
         /\ qrValue' = r.value
         /\ IF PayloadChanged(qrValue, r.value)
            THEN /\ aiQrImage' = NoImage
                 /\ validationStatus' = "idle"
            ELSE UNCHANGED <<aiQrImage, validationStatus>>
    ELSE /\ error' = "encode"
         /\ qrValue' = 0
         /\ UNCHANGED <<aiQrImage, validationStatus>>

\* a handler that replaces qrData or qrType: the re-render runs the payload
\* effect, whose setQrValue re-renders again and runs the render effects
SetQrData(type, data) ==
    /\ qrType' = type
    /\ qrData' = data
    /\ PayloadEffect(type, data)
    /\ RenderEffects(qrValue', qrStyleOptions)
    /\ edits' = IF qrValue' # qrValue /\ edits < MaxBurst THEN edits + 1 ELSE edits
    /\ UNCHANGED qrStyleOptions


\* the variables no form or style handler touches
asyncVars == <<isLoading, isExporting, exportProgress, artTask, aiValidation,
               exportTask>>

(***************************************************************************)
(* Form handlers.                                                          *)
(***************************************************************************)
\* handleInputChange(field, value): the url field, or the folio's name field
HandleInputChange(t) ==
    /\ t # qrData.text
    /\ SetQrData(qrType, [qrData EXCEPT !.text = t])
    /\ UNCHANGED <<asyncVars, fixedVars, lastCheck, overlayHistory>>

\* the default form content of a kind
DefaultData(newType) ==
    IF newType = "linkFolio"
    THEN [text |-> 0, blankLink |-> FALSE]
    ELSE [text |-> 1, blankLink |-> FALSE]

HandleTypeChange(newType) ==
    /\ newType # qrType
    /\ SetQrData(newType, DefaultData(newType))
    /\ UNCHANGED <<asyncVars, fixedVars, lastCheck, overlayHistory>>

\* addLink: a new row { title: '', url: '' }
AddLink ==
    /\ qrType = "linkFolio"
    /\ ~qrData.blankLink
    /\ SetQrData(qrType, [qrData EXCEPT !.blankLink = TRUE])
    /\ UNCHANGED <<asyncVars, fixedVars, lastCheck, overlayHistory>>

\* removeLink(index) of the blank row
RemoveLink ==
    /\ qrType = "linkFolio"
    /\ qrData.blankLink
    /\ SetQrData(qrType, [qrData EXCEPT !.blankLink = FALSE])
    /\ UNCHANGED <<asyncVars, fixedVars, lastCheck, overlayHistory>>

\* handleStyleChange / handleImageOptionChange
\* a style change that drops the verdict of the overlay
HandleStyleChangeResetsOverlay(s) ==
    /\ s # qrStyleOptions
    /\ qrStyleOptions' = s
    /\ RenderEffects(qrValue, s)
    /\ validationStatus' = "idle"
    /\ UNCHANGED <<qrType, qrData, qrValue, error, aiQrImage, asyncVars, fixedVars,
                   lastCheck, edits, overlayHistory>>

HandleStyleChange(s) ==
    /\ s # qrStyleOptions
    /\ qrStyleOptions' = s
    /\ RenderEffects(qrValue, s)
    /\ UNCHANGED <<qrType, qrData, qrValue, error, aiQrImage, validationStatus,
                   asyncVars, fixedVars, lastCheck, edits, overlayHistory>>

(***************************************************************************)
(* The debounced check of the standard code (the setTimeout callback).     *)
(* `capture` is what the canvas gives: "ok", "noContext" (getContext       *)
(* returns null) or "throws" (getImageData throws).                        *)
(***************************************************************************)
Captures == {"ok", "noContext", "throws"}

\* a check that takes any code found for a match
CheckOutcomeAnyCode(captured, container, raster, capture) ==
    IF container # "div" THEN "failed"
    ELSE IF capture = "noContext" THEN "failed"
    ELSE IF capture = "throws" THEN "failed"
    ELSE IF JsQR(raster).found THEN "success" ELSE "failed"

\* a check whose catch block only logs
CheckOutcomeCatchLogsOnly(captured, container, raster, capture) ==
    IF container # "div" THEN "failed"
    ELSE IF capture = "noContext" THEN "failed"
    ELSE IF capture = "throws" THEN "idle"
    ELSE LET code == JsQR(raster) IN
         IF code.found /\ code.data = captured THEN "success" ELSE "failed"

CheckOutcome(captured, container, raster, capture) ==
    IF container # "div" THEN "failed"
    ELSE IF capture = "noContext" THEN "failed"
    ELSE IF capture = "throws" THEN "failed"
    ELSE LET code == JsQR(raster) IN
         IF code.found /\ code.data = captured THEN "success" ELSE "failed"

ValidationTimeoutFires(timer, capture) ==
    /\ timer \in validationTimeout
    /\ validationTimeout' = validationTimeout \ {timer}
    /\ standardQrValidationStatus' =
           CheckOutcome(timer.qrValue, qrContainerRef, Raster, capture)
    /\ lastCheck' = [ran |-> TRUE, captured |-> timer.qrValue, live |-> qrValue,
                     style |-> qrStyleOptions, capture |-> capture, burst |-> edits]
    /\ edits' = 0
    /\ UNCHANGED <<qrType, qrData, qrValue, qrStyleOptions, error, aiQrImage,
                   validationStatus, asyncVars, qrContainerRef, qrCodeStyling,
                   fixedVars, overlayHistory>>

formVars == <<qrType, qrData, qrValue, qrStyleOptions, qrContainerRef,
              qrCodeStyling, validationTimeout, standardQrValidationStatus,
              fixedVars, lastCheck, edits>>

(***************************************************************************)
(* handleGenerateArt: the click, then one step per awaited promise.        *)
(***************************************************************************)
Settled == {"resolves", "rejects"}

\* the Generate button is enabled unless isLoading || !qrValue
HandleGenerateArt(promptEmpty) ==
    /\ ~isLoading
    /\ qrValue # 0
    /\ IF promptEmpty \/ ~qrCodeStyling.exists
       THEN /\ error' = "artPrerequisite"
            /\ UNCHANGED <<isLoading, aiQrImage, validationStatus, artTask>>
       ELSE /\ isLoading' = TRUE
            /\ error' = NoError
            /\ aiQrImage' = NoImage
            /\ validationStatus' = "idle"
            /\ artTask' = [pc |-> "getRawData", data |-> Raster.data]
    /\ UNCHANGED <<formVars, isExporting, exportProgress, aiValidation, exportTask,
                   overlayHistory>>

\* catch (err) { setError(...) } finally { setIsLoading(false) }
\* a catch that marks the overlay Failed
ArtFailsMarksFailed ==
    /\ error' = "art"
    /\ isLoading' = FALSE
    /\ artTask' = ArtIdle
    /\ validationStatus' = "failed"
    /\ UNCHANGED aiQrImage

ArtFails ==
    /\ error' = "art"
    /\ isLoading' = FALSE
    /\ artTask' = ArtIdle
    /\ UNCHANGED <<aiQrImage, validationStatus>>

\* await qrCodeStyling.current.getRawData('png'); a null blob throws
ArtRawDataSettled(outcome) ==
    /\ artTask.pc = "getRawData"
    /\ IF outcome = "blob"
       THEN /\ artTask' = [artTask EXCEPT !.pc = "blobToBase64"]
            /\ UNCHANGED <<error, isLoading, aiQrImage, validationStatus>>
       ELSE ArtFails
    /\ UNCHANGED <<formVars, isExporting, exportProgress, aiValidation, exportTask,
                   overlayHistory>>

\* await blobToBase64(blob)
ArtBase64Settled(outcome) ==
    /\ artTask.pc = "blobToBase64"
    /\ IF outcome = "resolves"
       THEN /\ artTask' = [artTask EXCEPT !.pc = "generateArtQrCode"]
            /\ UNCHANGED <<error, isLoading, aiQrImage, validationStatus>>
       ELSE ArtFails
    /\ UNCHANGED <<formVars, isExporting, exportProgress, aiValidation, exportTask,
                   overlayHistory>>

\* setAiQrImage(`data:image/png;base64,${result}`)
InstallArt(current, data, readable) ==
    [has |-> TRUE, data |-> data, readable |-> readable]

\* await generateArtQrCode(base64QrImage, artPrompt)
ArtGenerateSettled(outcome, readable) ==
    /\ artTask.pc = "generateArtQrCode"
    /\ IF outcome = "resolves"
       THEN /\ aiQrImage' = InstallArt(aiQrImage, artTask.data, readable)
            /\ isLoading' = FALSE
            /\ artTask' = ArtIdle
            /\ UNCHANGED <<error, validationStatus>>
       ELSE ArtFails
    /\ UNCHANGED <<formVars, isExporting, exportProgress, aiValidation, exportTask,
                   overlayHistory>>

(***************************************************************************)
(* handleValidateAiQr: the click starts an image load whose onload and     *)
(* onerror callbacks close over the qrValue of the render of the click.    *)
(***************************************************************************)
\* the Validate button is enabled unless !aiQrImage || isLoading; the hidden
\* validation canvas is always mounted
HandleValidateAiQr(contextOk) ==
    /\ aiQrImage.has
    /\ ~isLoading
    /\ overlayStarted < MaxValidations
    /\ IF contextOk
       THEN /\ aiValidation' =
                   aiValidation \cup {[qrValue |-> qrValue, image |-> aiQrImage,
                                       seq |-> overlayStarted + 1]}
            /\ overlayStarted' = overlayStarted + 1
            /\ UNCHANGED error
       ELSE /\ error' = "canvasContext"
            /\ UNCHANGED <<aiValidation, overlayStarted>>
    /\ UNCHANGED <<formVars, aiQrImage, validationStatus, isLoading, isExporting,
                   exportProgress, artTask, exportTask, overlayFor, lastOverlay>>

\* jsQR on the pixels of the drawn overlay image
JsQRImage(image) ==
    IF image.readable THEN [found |-> TRUE, data |-> image.data]
    ELSE [found |-> FALSE, data |-> 0]

\* an onload that takes any code found for a match
OverlayOutcomeAnyCode(load) ==
    IF JsQRImage(load.image).found THEN "success" ELSE "failed"

\* img.onload: decode the drawn image and compare with the captured qrValue
OverlayOutcome(load) ==
    LET code == JsQRImage(load.image) IN
    IF code.found /\ code.data = load.qrValue THEN "success" ELSE "failed"

\* img.onload (loaded) or img.onerror of a pending image
AiImageSettled(load, loaded) ==
    /\ load \in aiValidation
    /\ aiValidation' = aiValidation \ {load}
    /\ overlayFor' = load.qrValue
    /\ lastOverlay' =
           [ran |-> TRUE, captured |-> load.qrValue, image |-> load.image,
            loaded |-> loaded]
    /\ IF loaded
       THEN /\ validationStatus' = OverlayOutcome(load)
            /\ UNCHANGED error
       ELSE /\ error' = "imageLoad"
            /\ validationStatus' = "failed"
    /\ UNCHANGED <<formVars, aiQrImage, isLoading, isExporting, exportProgress,
                   artTask, exportTask, overlayStarted>>

(***************************************************************************)
(* handleBatchExport: the click, then one step per awaited promise.        *)
(***************************************************************************)
exportFrame == <<formVars, aiQrImage, validationStatus, isLoading, artTask,
                 aiValidation, overlayHistory>>

\* setExportProgress({ percentage, ... })
Report(task, percentage) == [task EXCEPT !.log = Append(@, percentage)]

\* the Batch Export button is enabled unless isExporting || !qrValue
HandleBatchExport ==
    /\ ~isExporting
    /\ qrValue # 0
    /\ IF ~qrCodeStyling.exists
       THEN /\ error' = "exportPrerequisite"
            /\ UNCHANGED <<isExporting, exportProgress, exportTask>>
       ELSE /\ isExporting' = TRUE
            /\ error' = NoError
            /\ exportProgress' = 0
            /\ exportTask' =
                   Report([ExportIdle EXCEPT !.pc = "delay1", !.image = aiQrImage], 0)
    /\ UNCHANGED exportFrame

\* a handler that catches inside the stage and carries on with compression
ExportCatchCarriesOn(task) ==
    [task EXCEPT !.pc = "delay4", !.errors = @ + 1, !.failed = TRUE]

\* catch (err) { setError(...) } finally { setTimeout(..., 2000) }
ExportCatch(task) ==
    [task EXCEPT !.pc = "settle", !.errors = @ + 1, !.failed = TRUE]

\* what the catch surfaces: the message of the Error the awaited capability
\* threw, "export", or, when what it threw is no Error, the fallback text
\* "Failed to create ZIP file.", "zipFallback"
ExportErrors == {"export", "zipFallback"}

\* setError(err instanceof Error ? err.message : "Failed to create ZIP file.")
ExportFails ==
    /\ exportTask' = ExportCatch(exportTask)
    /\ error' \in ExportErrors
    /\ UNCHANGED <<isExporting, exportProgress>>

\* percentages typed out of order
StageAfterDelayOutOfOrder(pc) ==
    CASE pc = "delay1" -> [stage |-> "png", percentage |-> 10]
      [] pc = "delay2" -> [stage |-> "svg", percentage |-> 60]
      [] pc = "delay3" -> [stage |-> "ai", percentage |-> 30]
      [] pc = "delay4" -> [stage |-> "zip", percentage |-> 90]
      [] pc = "delay5" -> [stage |-> "download", percentage |-> 100]

\* the stage an elapsed delay starts, and the percentage reported with it
StageAfterDelay(pc) ==
    CASE pc = "delay1" -> [stage |-> "png", percentage |-> 10]
      [] pc = "delay2" -> [stage |-> "svg", percentage |-> 30]
      [] pc = "delay3" -> [stage |-> "ai", percentage |-> 60]
      [] pc = "delay4" -> [stage |-> "zip", percentage |-> 90]
      [] pc = "delay5" -> [stage |-> "download", percentage |-> 100]

Delays == {"delay1", "delay2", "delay3", "delay4", "delay5"}

\* await new Promise(res => setTimeout(res, 200)) has elapsed: report the
\* percentage and start the stage; the last one offers the archive and
\* falls through to finally
ExportDelayElapsed ==
    /\ exportTask.pc \in Delays
    /\ LET next == StageAfterDelay(exportTask.pc)
           started == [Report(exportTask, next.percentage) EXCEPT
                          !.stages = Append(@, next.stage)] IN
       /\ exportProgress' = next.percentage
       /\ exportTask' =
             IF next.stage = "download"
             THEN [started EXCEPT !.pc = "settle", !.offered = TRUE]
             ELSE [started EXCEPT !.pc = next.stage]
    /\ UNCHANGED <<error, isExporting, exportFrame>>

\* if (aiQrImage) { ... }: the overlay stage, or straight to compression
AfterSvg(image) == IF image.has THEN "delay3" ELSE "delay4"

\* const pngBlob = await getRawData('png'); if (pngBlob) zip.file(...)
ExportPngSettled(outcome) ==
    /\ exportTask.pc = "png"
    /\ IF outcome = "rejects" THEN ExportFails
       ELSE /\ exportTask' =
                   [exportTask EXCEPT !.pc = "delay2",
                       !.png = IF outcome = "blob" THEN Raster.data ELSE -1]
            /\ UNCHANGED <<error, isExporting, exportProgress>>
    /\ UNCHANGED exportFrame

\* const svgBlob = await getRawData('svg'); if (svgBlob) zip.file(...)
ExportSvgSettled(outcome) ==
    /\ exportTask.pc = "svg"
    /\ IF outcome = "rejects" THEN ExportFails
       ELSE /\ exportTask' =
                   [exportTask EXCEPT !.pc = AfterSvg(exportTask.image),
                       !.svg = IF outcome = "blob" THEN Raster.data ELSE -1]
            /\ UNCHANGED <<error, isExporting, exportProgress>>
    /\ UNCHANGED exportFrame

\* const aiBlob = await (await fetch(aiQrImage)).blob()
ExportAiSettled(outcome) ==
    /\ exportTask.pc = "ai"
    /\ IF outcome = "rejects" THEN ExportFails
       ELSE /\ exportTask' =
                   [exportTask EXCEPT !.pc = "delay4", !.ai = exportTask.image.data]
            /\ UNCHANGED <<error, isExporting, exportProgress>>
    /\ UNCHANGED exportFrame

\* const content = await zip.generateAsync({ type: 'blob' })
ExportZipSettled(outcome) ==
    /\ exportTask.pc = "zip"
    /\ IF outcome = "rejects" THEN ExportFails
       ELSE /\ exportTask' = [exportTask EXCEPT !.pc = "delay5"]
            /\ UNCHANGED <<error, isExporting, exportProgress>>
    /\ UNCHANGED exportFrame

\* a timer of finally that leaves the progress indicator
ExportSettlesKeepsProgress ==
    /\ exportTask.pc = "settle"
    /\ isExporting' = FALSE
    /\ exportTask' = [exportTask EXCEPT !.pc = "idle"]
    /\ UNCHANGED <<error, exportProgress, exportFrame>>

\* the timer of finally: setIsExporting(false); setExportProgress(null)
ExportSettles ==
    /\ exportTask.pc = "settle"
    /\ isExporting' = FALSE
    /\ exportProgress' = -1
    /\ exportTask' = [exportTask EXCEPT !.pc = "idle"]
    /\ UNCHANGED <<error, exportFrame>>

Blobs == {"blob", "null", "rejects"}

(***************************************************************************)
(*                     Text, bytes and the Folio token                     *)
(* A string is a sequence of UTF-16 code units, a binary string a sequence *)
(* of bytes.                                                               *)
(***************************************************************************)
\* Op applied to the value of e, as a const declaration: e is evaluated
\* once, whatever use Op makes of it
With(e, Op(_)) == CHOOSE r \in {Op(v) : v \in {e}} : TRUE

IsHighSurrogate(c) == c >= 55296 /\ c <= 56319
IsLowSurrogate(c) == c >= 56320 /\ c <= 57343

\* the UTF-8 bytes of code point cp
Utf8OfCodePoint(cp) ==
    IF cp < 128 THEN <<cp>>
    ELSE IF cp < 2048 THEN <<192 + (cp \div 64), 128 + (cp % 64)>>
    ELSE IF cp < 65536
         THEN <<224 + (cp \div 4096), 128 + ((cp \div 64) % 64), 128 + (cp % 64)>>
    ELSE <<240 + (cp \div 262144), 128 + ((cp \div 4096) % 64),
           128 + ((cp \div 64) % 64), 128 + (cp % 64)>>

\* the pieces of a sequence of sequences, from the lo-th to the hi-th, joined
RECURSIVE FlattenRange(_, _, _)
FlattenRange(pieces, lo, hi) ==
    IF lo > hi THEN <<>>
    ELSE IF lo = hi THEN pieces[lo]
    ELSE With((lo + hi) \div 2, LAMBDA mid :
             With(FlattenRange(pieces, lo, mid), LAMBDA left :
                 left \o FlattenRange(pieces, mid + 1, hi)))

Flatten(pieces) == With(pieces, LAMBDA all : FlattenRange(all, 1, Len(all)))

\* the code unit at i is the first, or the second, half of a surrogate pair
StartsPair(str, i) ==
    IsHighSurrogate(str[i]) /\ i < Len(str) /\ IsLowSurrogate(str[i + 1])
EndsPair(str, i) == IsLowSurrogate(str[i]) /\ i > 1 /\ IsHighSurrogate(str[i - 1])

\* a surrogate that is half of no pair
IsLoneSurrogate(str, i) ==
    \/ IsHighSurrogate(str[i]) /\ ~StartsPair(str, i)
    \/ IsLowSurrogate(str[i]) /\ ~EndsPair(str, i)

\* unescape(encodeURIComponent(str)): the UTF-8 bytes of str;
\* encodeURIComponent throws URIError on a lone surrogate
Utf8Bytes(string) ==
    With(string, LAMBDA str :
        IF \E i \in 1..Len(str) : IsLoneSurrogate(str, i)
        THEN [ok |-> FALSE, bytes |-> <<>>]
        ELSE [ok |-> TRUE,
              bytes |-> Flatten([i \in 1..Len(str) |->
                           IF StartsPair(str, i)
                           THEN Utf8OfCodePoint(65536 + (str[i] - 55296) * 1024
                                                + (str[i + 1] - 56320))
                           ELSE IF EndsPair(str, i) THEN <<>>
                           ELSE Utf8OfCodePoint(str[i])])])

\* the base64 alphabet: A-Z a-z 0-9 + /
Base64Char(v) ==
    IF v < 26 THEN 65 + v
    ELSE IF v < 52 THEN 97 + (v - 26)
    ELSE IF v < 62 THEN 48 + (v - 52)
    ELSE IF v = 62 THEN 43 ELSE 47

\* the value of a character of the base64 alphabet, -1 for any other
Base64Value(c) ==
    IF c >= 65 /\ c <= 90 THEN c - 65
    ELSE IF c >= 97 /\ c <= 122 THEN c - 97 + 26
    ELSE IF c >= 48 /\ c <= 57 THEN c - 48 + 52
    ELSE IF c = 43 THEN 62
    ELSE IF c = 47 THEN 63
    ELSE -1

\* btoa(bin): every three bytes give four characters, "=" padding the last
Btoa(binary) ==
    With(binary, LAMBDA bin :
        LET byte(i) == IF i <= Len(bin) THEN bin[i] ELSE 0 IN
        [k \in 1..(4 * ((Len(bin) + 2) \div 3)) |->
            With(3 * ((k - 1) \div 4) + 1, LAMBDA i :
                With((k - 1) % 4, LAMBDA c :
                    IF c = 0 THEN Base64Char(byte(i) \div 4)
                    ELSE IF c = 1
                    THEN Base64Char((byte(i) % 4) * 16 + (byte(i + 1) \div 16))
                    ELSE IF c = 2
                    THEN IF i + 1 > Len(bin) THEN 61
                         ELSE Base64Char((byte(i + 1) % 16) * 4 + (byte(i + 2) \div 64))
                    ELSE IF i + 2 > Len(bin) THEN 61
                    ELSE Base64Char(byte(i + 2) % 64)))])

\* utf8ToBase64(str): [ok, token]; not ok when the helper throws
Utf8ToBase64(str) ==
    With(Utf8Bytes(str), LAMBDA bin :
        IF bin.ok THEN [ok |-> TRUE, token |-> Btoa(bin.bytes)]
        ELSE [ok |-> FALSE, token |-> <<>>])

IsAsciiWhitespace(c) == c \in {9, 10, 12, 13, 32}

\* text without the padding forgiving-base64 drops: one or two "=" at the
\* end of a text whose length is a multiple of four
WithoutPadding(s) ==
    IF Len(s) % 4 = 0 /\ Len(s) >= 1 /\ s[Len(s)] = 61
    THEN IF Len(s) >= 2 /\ s[Len(s) - 1] = 61
         THEN SubSeq(s, 1, Len(s) - 2)
         ELSE SubSeq(s, 1, Len(s) - 1)
    ELSE s

\* window.atob(str), the forgiving-base64 decode: [ok, bytes]; ASCII
\* whitespace is dropped first
Atob(str) ==
    With(SelectSeq(str, LAMBDA c : ~IsAsciiWhitespace(c)), LAMBDA s1 :
        With(WithoutPadding(s1), LAMBDA s2 :
            LET v(k) == Base64Value(s2[k]) IN
            IF Len(s2) % 4 = 1 \/ \E k \in 1..Len(s2) : Base64Value(s2[k]) = -1
            THEN [ok |-> FALSE, bytes |-> <<>>]
            ELSE [ok |-> TRUE,
                  bytes |-> [j \in 1..((Len(s2) * 3) \div 4) |->
                      With(4 * ((j - 1) \div 3) + 1, LAMBDA k :
                          With((j - 1) % 3, LAMBDA c :
                              IF c = 0 THEN v(k) * 4 + (v(k + 1) \div 16)
                              ELSE IF c = 1
                              THEN (v(k + 1) % 16) * 16 + (v(k + 2) \div 4)
                              ELSE (v(k + 2) % 4) * 64 + v(k + 3)))]]))

\* the code units of code point cp
Utf16OfCodePoint(cp) ==
    IF cp < 65536 THEN <<cp>>
    ELSE <<55296 + ((cp - 65536) \div 1024), 56320 + ((cp - 65536) % 1024)>>

\* a UTF-8 lead byte: how many continuation bytes it needs, the range of the
\* first of them, and the bits it carries; need = 0 for a byte that cannot
\* start a sequence
Utf8Lead(b) ==
    IF b >= 194 /\ b <= 223 THEN [need |-> 1, lo |-> 128, hi |-> 191, bits |-> b - 192]
    ELSE IF b >= 224 /\ b <= 239
    THEN [need |-> 2, lo |-> IF b = 224 THEN 160 ELSE 128,
          hi |-> IF b = 237 THEN 159 ELSE 191, bits |-> b - 224]
    ELSE IF b >= 240 /\ b <= 244
    THEN [need |-> 3, lo |-> IF b = 240 THEN 144 ELSE 128,
          hi |-> IF b = 244 THEN 143 ELSE 191, bits |-> b - 240]
    ELSE [need |-> 0, lo |-> 0, hi |-> 0, bits |-> 0]

\* the sequence that starts at byte i: [ok, cp, next], the code point it
\* spells and the byte after it; a malformed one ends before the first byte
\* that cannot continue it and spells U+FFFD
Utf8Sequence(bin, i) ==
    IF bin[i] < 128 THEN [ok |-> TRUE, cp |-> bin[i], next |-> i + 1]
    ELSE With(Utf8Lead(bin[i]), LAMBDA lead :
        LET fits(k) == /\ i + k <= Len(bin)
                       /\ bin[i + k] >= (IF k = 1 THEN lead.lo ELSE 128)
                       /\ bin[i + k] <= (IF k = 1 THEN lead.hi ELSE 191)
            cont(k) == bin[i + k] - 128 IN
        IF lead.need = 0 THEN [ok |-> FALSE, cp |-> 65533, next |-> i + 1]
        ELSE With(IF ~fits(1) THEN 0 ELSE IF ~fits(2) THEN 1 ELSE IF ~fits(3) THEN 2 ELSE 3,
                  LAMBDA got :
            IF got < lead.need THEN [ok |-> FALSE, cp |-> 65533, next |-> i + 1 + got]
            ELSE [ok |-> TRUE,
                  cp |-> IF lead.need = 1 THEN lead.bits * 64 + cont(1)
                         ELSE IF lead.need = 2
                         THEN lead.bits * 4096 + cont(1) * 64 + cont(2)
                         ELSE lead.bits * 262144 + cont(1) * 4096 + cont(2) * 64
                              + cont(3),
                  next |-> i + lead.need + 1]))

\* byte i belongs to the sequence of a lead byte before it (a lead byte is
\* never a continuation byte, so it always starts a sequence)
IsContinued(bin, i) ==
    \E j \in 1..3 : i - j >= 1 /\ Utf8Lead(bin[i - j]).need > 0
                    /\ Utf8Sequence(bin, i - j).next > i

\* the string the UTF-8 bytes spell, U+FFFD standing for each malformed
\* sequence; ok when there was none
Utf8Decode(binary) ==
    With(binary, LAMBDA bin :
        With([i \in 1..Len(bin) |->
                 IF IsContinued(bin, i) THEN [ok |-> TRUE, units |-> <<>>]
                 ELSE With(Utf8Sequence(bin, i), LAMBDA seq :
                          [ok |-> seq.ok, units |-> Utf16OfCodePoint(seq.cp)])],
             LAMBDA decoded :
                 [ok |-> \A i \in 1..Len(decoded) : decoded[i].ok,
                  str |-> Flatten([i \in 1..Len(decoded) |-> decoded[i].units])]))

\* "{}"
EmptyObjectText == <<123, 125>>

\* base64ToUtf8 without the UTF-8 step: window.atob(str) alone, a character
\* for each byte
Base64ToUtf8AtobOnly(str) ==
    With(Atob(str), LAMBDA bin : IF bin.ok THEN bin.bytes ELSE EmptyObjectText)

\* base64ToUtf8(str): the decoded text, "{}" when atob or decodeURIComponent
\* throws
Base64ToUtf8(str) ==
    With(Atob(str), LAMBDA bin :
        IF ~bin.ok THEN EmptyObjectText
        ELSE With(Utf8Decode(bin.bytes), LAMBDA text :
                 \* decodeURIComponent throws URIError on malformed UTF-8
                 IF text.ok THEN text.str ELSE EmptyObjectText))

(***************************************************************************)
(*                      The payload address and its query                  *)
(***************************************************************************)
\* the least member of a set of numbers, none if the set is empty
Least(set, none) ==
    With(set, LAMBDA S : IF S = {} THEN none ELSE CHOOSE k \in S : \A h \in S : k <= h)

\* the position of the first c in str at or after i, Len(str) + 1 if none
FirstIndex(str, c, i) == Least({k \in i..Len(str) : str[k] = c}, Len(str) + 1)

HexDigit(v) == IF v < 10 THEN 48 + v ELSE 55 + v

\* the value of a hexadecimal digit, -1 for any other character
HexValue(c) ==
    IF c >= 48 /\ c <= 57 THEN c - 48
    ELSE IF c >= 65 /\ c <= 70 THEN c - 55
    ELSE IF c >= 97 /\ c <= 102 THEN c - 87
    ELSE -1

\* the characters encodeURIComponent leaves alone: A-Z a-z 0-9 - _ . ! ~ * ' ( )
IsUriUnreserved(b) ==
    \/ b >= 65 /\ b <= 90
    \/ b >= 97 /\ b <= 122
    \/ b >= 48 /\ b <= 57
    \/ b \in {45, 95, 46, 33, 126, 42, 39, 40, 41}

\* encodeURIComponent(str): the UTF-8 bytes of str, %XX for each that is not
\* unreserved; the token it is applied to is base64 text, which has no
\* surrogates, so it does not throw here
EncodeURIComponent(str) ==
    With(Utf8Bytes(str).bytes, LAMBDA bin :
        Flatten([i \in 1..Len(bin) |->
                    IF IsUriUnreserved(bin[i]) THEN <<bin[i]>>
                    ELSE <<37, HexDigit(bin[i] \div 16), HexDigit(bin[i] % 16)>>]))

\* window.location.href.split('?')[0]
BaseAppUrl(href) == SubSeq(href, 1, FirstIndex(href, 63, 1) - 1)

\* "?folio="
FolioQuery == <<63, 102, 111, 108, 105, 111, 61>>

\* "folio"
FolioParam == <<102, 111, 108, 105, 111>>

\* window.location.search of the page at address href: the query, from its
\* "?" up to the fragment, empty when the query is
LocationSearch(href) ==
    With(SubSeq(href, 1, FirstIndex(href, 35, 1) - 1), LAMBDA noFragment :
        With(SubSeq(noFragment, FirstIndex(noFragment, 63, 1), Len(noFragment)),
             LAMBDA search : IF Len(search) <= 1 THEN <<>> ELSE search))

\* %XX at i
IsEscape(str, i) ==
    /\ i >= 1
    /\ i + 2 <= Len(str)
    /\ str[i] = 37
    /\ HexValue(str[i + 1]) >= 0
    /\ HexValue(str[i + 2]) >= 0

\* a name or a value of a query, decoded: "+" is a space, %XX a byte, and the
\* bytes are read as UTF-8
FormDecode(string) ==
    With(string, LAMBDA str :
        Utf8Decode(Flatten([i \in 1..Len(str) |->
            IF IsEscape(str, i)
            THEN <<16 * HexValue(str[i + 1]) + HexValue(str[i + 2])>>
            ELSE IF IsEscape(str, i - 1) \/ IsEscape(str, i - 2) THEN <<>>
            ELSE IF str[i] = 43 THEN <<32>>
            ELSE Utf8OfCodePoint(str[i])])).str)

\* the value of the first pair called name in the pairs of query from i on
RECURSIVE ParamsGetFrom(_, _, _)
ParamsGetFrom(query, i, name) ==
    IF i > Len(query) THEN [found |-> FALSE, value |-> <<>>]
    ELSE With(FirstIndex(query, 38, i), LAMBDA amp :
         With(SubSeq(query, i, amp - 1), LAMBDA pair :
         With(FirstIndex(pair, 61, 1), LAMBDA eq :
             IF pair # <<>> /\ FormDecode(SubSeq(pair, 1, eq - 1)) = name
             THEN [found |-> TRUE, value |-> FormDecode(SubSeq(pair, eq + 1, Len(pair)))]
             ELSE ParamsGetFrom(query, amp + 1, name))))

\* new URLSearchParams(search).get(name)
SearchParamsGet(search, name) ==
    With(IF search # <<>> /\ search[1] = 63 THEN Tail(search) ELSE search,
         LAMBDA query : ParamsGetFrom(query, 1, name))

(***************************************************************************)
(*                               JSON values                               *)
(* A value is a record [t, s, kv]: t its type, s the text of a string or   *)
(* of a number, kv the items of an array or the members [k, v] of an       *)
(* object.                                                                 *)
(***************************************************************************)
Undefined == [t |-> "undefined", s |-> <<>>, kv |-> <<>>]
JsonNull == [t |-> "null", s |-> <<>>, kv |-> <<>>]
JsonBool(b) == [t |-> IF b THEN "true" ELSE "false", s |-> <<>>, kv |-> <<>>]
JsonString(str) == [t |-> "string", s |-> str, kv |-> <<>>]
JsonNumber(text) == [t |-> "number", s |-> text, kv |-> <<>>]
JsonArray(items) == [t |-> "array", s |-> <<>>, kv |-> items]
JsonObject(members) == [t |-> "object", s |-> <<>>, kv |-> members]

LowerHexDigit(v) == IF v < 10 THEN 48 + v ELSE 87 + v

\* \uXXXX
UnicodeEscape(c) ==
    <<92, 117, LowerHexDigit(c \div 4096), LowerHexDigit((c \div 256) % 16),
      LowerHexDigit((c \div 16) % 16), LowerHexDigit(c % 16)>>

\* QuoteJSONString: the characters of the literal for the code unit at i; a
\* lone surrogate is escaped by a well-formed JSON.stringify and copied by
\* an older one
QuoteUnit(str, i, wellFormed) ==
    With(str[i], LAMBDA c :
        IF c = 34 THEN <<92, 34>>
        ELSE IF c = 92 THEN <<92, 92>>
        ELSE IF c = 8 THEN <<92, 98>>
        ELSE IF c = 12 THEN <<92, 102>>
        ELSE IF c = 10 THEN <<92, 110>>
        ELSE IF c = 13 THEN <<92, 114>>
        ELSE IF c = 9 THEN <<92, 116>>
        ELSE IF c < 32 THEN UnicodeEscape(c)
        ELSE IF IsLoneSurrogate(str, i) /\ wellFormed THEN UnicodeEscape(c)
        ELSE <<c>>)

JsonQuote(string, wellFormed) ==
    With(string, LAMBDA str :
        <<34>> \o Flatten([i \in 1..Len(str) |-> QuoteUnit(str, i, wellFormed)]) \o <<34>>)

\* the texts joined by commas
Join(texts) ==
    Flatten([k \in 1..Len(texts) |-> IF k = 1 THEN texts[k] ELSE <<44>> \o texts[k]])

\* JSON.stringify of a value: a property whose value is undefined is left out
RECURSIVE JsonStringify(_, _)
JsonStringify(value, wellFormed) ==
    With(value, LAMBDA v :
        IF v.t = "string" THEN JsonQuote(v.s, wellFormed)
        ELSE IF v.t = "number" THEN v.s
        ELSE IF v.t = "true" THEN <<116, 114, 117, 101>>
        ELSE IF v.t = "false" THEN <<102, 97, 108, 115, 101>>
        ELSE IF v.t = "array"
        THEN <<91>> \o Join([k \in 1..Len(v.kv) |-> JsonStringify(v.kv[k], wellFormed)])
             \o <<93>>
        ELSE IF v.t = "object"
        THEN With(SelectSeq(v.kv, LAMBDA m : m.v.t # "undefined"), LAMBDA defined :
                 <<123>> \o Join([k \in 1..Len(defined) |->
                                     JsonQuote(defined[k].k, wellFormed) \o <<58>>
                                     \o JsonStringify(defined[k].v, wellFormed)])
                 \o <<125>>)
        ELSE <<110, 117, 108, 108>>)

IsJsonWhitespace(c) == c \in {9, 10, 13, 32}
IsDigit(c) == c >= 48 /\ c <= 57

\* the position of the first character at or after i that is not whitespace
SkipWhitespace(text, i) ==
    IF i > Len(text) \/ ~IsJsonWhitespace(text[i]) THEN i
    ELSE Least({k \in i..Len(text) : ~IsJsonWhitespace(text[k])}, Len(text) + 1)

\* the position of the first character at or after i that is not a digit
SkipDigits(text, i) ==
    IF i > Len(text) \/ ~IsDigit(text[i]) THEN i
    ELSE Least({k \in i..Len(text) : ~IsDigit(text[k])}, Len(text) + 1)

ParseFailure == [ok |-> FALSE, v |-> Undefined, next |-> 0]

\* text has the characters of word at i
HasWord(text, i, word) ==
    /\ i + Len(word) - 1 <= Len(text)
    /\ \A k \in 1..Len(word) : text[i + k - 1] = word[k]

\* text has character c at i
HasChar(text, i, c) == i <= Len(text) /\ text[i] = c

\* a JSON number at i: -? (0 | [1-9][0-9]*) (. [0-9]+)? ([eE] [+-]? [0-9]+)?
ParseNumber(text, i) ==
    With(IF HasChar(text, i, 45) THEN i + 1 ELSE i, LAMBDA int :
    With(IF HasChar(text, int, 48) THEN int + 1 ELSE SkipDigits(text, int), LAMBDA intEnd :
    With(IF HasChar(text, intEnd, 46) THEN SkipDigits(text, intEnd + 1) ELSE intEnd,
         LAMBDA fracEnd :
    With(HasChar(text, fracEnd, 69) \/ HasChar(text, fracEnd, 101), LAMBDA hasExp :
    With(IF hasExp /\ (HasChar(text, fracEnd + 1, 43) \/ HasChar(text, fracEnd + 1, 45))
         THEN fracEnd + 2 ELSE fracEnd + 1, LAMBDA expDigits :
    With(IF hasExp THEN SkipDigits(text, expDigits) ELSE fracEnd, LAMBDA expEnd :
        IF \/ intEnd = int
           \/ (fracEnd # intEnd /\ fracEnd = intEnd + 1)
           \/ (hasExp /\ expEnd = expDigits)
        THEN ParseFailure
        ELSE [ok |-> TRUE, v |-> JsonNumber(SubSeq(text, i, expEnd - 1)),
              next |-> expEnd]))))))

\* the backslashes that end just before k in a string literal whose
\* characters start at i
BackslashesBefore(text, i, k) ==
    IF k = i \/ text[k - 1] # 92 THEN 0
    ELSE With({m \in i..(k - 1) : text[m] # 92}, LAMBDA others :
             IF others = {} THEN k - i
             ELSE k - 1 - (CHOOSE m \in others : \A o \in others : o <= m))

\* the character at k follows a backslash that escapes it
IsEscaped(text, i, k) == BackslashesBefore(text, i, k) % 2 = 1

\* the character at k is one of the four after the u of a \u escape
IsHexOfEscape(text, i, k) ==
    \E d \in 1..4 : k - d > i /\ text[k - d] = 117 /\ IsEscaped(text, i, k - d)

\* the code units the character at k of a string literal stands for:
\* [ok, units]; an escape is decoded at its backslash
ParseChar(text, i, k, close) ==
    With(text[k], LAMBDA c :
        IF IsEscaped(text, i, k) \/ IsHexOfEscape(text, i, k)
        THEN [ok |-> TRUE, units |-> <<>>]
        ELSE IF c < 32 THEN [ok |-> FALSE, units |-> <<>>]
        ELSE IF c # 92 THEN [ok |-> TRUE, units |-> <<c>>]
        ELSE With(text[k + 1], LAMBDA e :
            IF e \in {34, 92, 47} THEN [ok |-> TRUE, units |-> <<e>>]
            ELSE IF e = 98 THEN [ok |-> TRUE, units |-> <<8>>]
            ELSE IF e = 102 THEN [ok |-> TRUE, units |-> <<12>>]
            ELSE IF e = 110 THEN [ok |-> TRUE, units |-> <<10>>]
            ELSE IF e = 114 THEN [ok |-> TRUE, units |-> <<13>>]
            ELSE IF e = 116 THEN [ok |-> TRUE, units |-> <<9>>]
            ELSE IF /\ e = 117
                    /\ k + 5 < close
                    /\ \A d \in 2..5 : HexValue(text[k + d]) >= 0
            THEN [ok |-> TRUE,
                  units |-> <<4096 * HexValue(text[k + 2]) + 256 * HexValue(text[k + 3])
                              + 16 * HexValue(text[k + 4]) + HexValue(text[k + 5])>>]
            ELSE [ok |-> FALSE, units |-> <<>>]))

\* the string literal whose characters start at i, after its opening quote:
\* [ok, s, next]; it ends at the first quote that no backslash escapes
ParseChars(text, i) ==
    With(Least({k \in i..Len(text) : text[k] = 34 /\ ~IsEscaped(text, i, k)}, 0),
         LAMBDA close :
        IF close = 0 THEN [ok |-> FALSE, s |-> <<>>, next |-> 0]
        ELSE With([d \in 1..(close - i) |-> ParseChar(text, i, i + d - 1, close)],
                  LAMBDA chars :
                 IF \A d \in 1..Len(chars) : chars[d].ok
                 THEN [ok |-> TRUE,
                       s |-> Flatten([d \in 1..Len(chars) |-> chars[d].units]),
                       next |-> close + 1]
                 ELSE [ok |-> FALSE, s |-> <<>>, next |-> 0]))

\* members with k bound to v: a repeated name keeps its place and takes the
\* later value
SetMember(members, k, v) ==
    IF \E n \in 1..Len(members) : members[n].k = k
    THEN [n \in 1..Len(members) |->
             IF members[n].k = k THEN [k |-> k, v |-> v] ELSE members[n]]
    ELSE Append(members, [k |-> k, v |-> v])

RECURSIVE ParseValue(_, _)
RECURSIVE ParseItems(_, _, _)
RECURSIVE ParseMembers(_, _, _)

\* the JSON value at i, whitespace before it skipped: [ok, v, next]
ParseValue(text, at) ==
    With(SkipWhitespace(text, at), LAMBDA i :
        IF i > Len(text) THEN ParseFailure
        ELSE IF text[i] = 123
        THEN With(SkipWhitespace(text, i + 1), LAMBDA j :
                 IF HasChar(text, j, 125)
                 THEN [ok |-> TRUE, v |-> JsonObject(<<>>), next |-> j + 1]
                 ELSE ParseMembers(text, j, <<>>))
        ELSE IF text[i] = 91
        THEN With(SkipWhitespace(text, i + 1), LAMBDA j :
                 IF HasChar(text, j, 93)
                 THEN [ok |-> TRUE, v |-> JsonArray(<<>>), next |-> j + 1]
                 ELSE ParseItems(text, j, <<>>))
        ELSE IF text[i] = 34
        THEN With(ParseChars(text, i + 1), LAMBDA str :
                 IF str.ok THEN [ok |-> TRUE, v |-> JsonString(str.s), next |-> str.next]
                 ELSE ParseFailure)
        ELSE IF HasWord(text, i, <<116, 114, 117, 101>>)
        THEN [ok |-> TRUE, v |-> JsonBool(TRUE), next |-> i + 4]
        ELSE IF HasWord(text, i, <<102, 97, 108, 115, 101>>)
        THEN [ok |-> TRUE, v |-> JsonBool(FALSE), next |-> i + 5]
        ELSE IF HasWord(text, i, <<110, 117, 108, 108>>)
        THEN [ok |-> TRUE, v |-> JsonNull, next |-> i + 4]
        ELSE ParseNumber(text, i))

\* the items of an array from its next item on
ParseItems(text, i, before) ==
    With(ParseValue(text, i), LAMBDA item :
        IF ~item.ok THEN ParseFailure
        ELSE With(SkipWhitespace(text, item.next), LAMBDA j :
        With(Append(before, item.v), LAMBDA items :
            IF HasChar(text, j, 93)
            THEN [ok |-> TRUE, v |-> JsonArray(items), next |-> j + 1]
            ELSE IF HasChar(text, j, 44) THEN ParseItems(text, j + 1, items)
            ELSE ParseFailure)))

\* the members of an object from its next member on
ParseMembers(text, at, before) ==
    With(SkipWhitespace(text, at), LAMBDA i :
        IF ~HasChar(text, i, 34) THEN ParseFailure
        ELSE With(ParseChars(text, i + 1), LAMBDA name :
            IF ~name.ok THEN ParseFailure
            ELSE With(SkipWhitespace(text, name.next), LAMBDA colon :
                IF ~HasChar(text, colon, 58) THEN ParseFailure
                ELSE With(ParseValue(text, colon + 1), LAMBDA value :
                    IF ~value.ok THEN ParseFailure
                    ELSE With(SkipWhitespace(text, value.next), LAMBDA j :
                    With(SetMember(before, name.s, value.v), LAMBDA members :
                        IF HasChar(text, j, 125)
                        THEN [ok |-> TRUE, v |-> JsonObject(members), next |-> j + 1]
                        ELSE IF HasChar(text, j, 44)
                        THEN ParseMembers(text, j + 1, members)
                        ELSE ParseFailure))))))

\* JSON.parse(text): [ok, v]; not ok when it throws SyntaxError
JsonParse(string) ==
    With(string, LAMBDA text :
        With(ParseValue(text, 1), LAMBDA value :
            IF value.ok /\ SkipWhitespace(text, value.next) > Len(text)
            THEN [ok |-> TRUE, v |-> value.v]
            ELSE [ok |-> FALSE, v |-> Undefined]))

(***************************************************************************)
(*             FolioCodec, producing side: the LinkFolio case              *)
(***************************************************************************)
\* "profileImageUrl", "name", "title", "links", "url", "length"
KeyProfileImageUrl ==
    <<112, 114, 111, 102, 105, 108, 101, 73, 109, 97, 103, 101, 85, 114, 108>>
KeyName == <<110, 97, 109, 101>>
KeyTitle == <<116, 105, 116, 108, 101>>
KeyLinks == <<108, 105, 110, 107, 115>>
KeyUrl == <<117, 114, 108>>
KeyLength == <<108, 101, 110, 103, 116, 104>>

\* a filter that tests the title alone
ValidLinksTitleOnly(links) == SelectSeq(links, LAMBDA link : link.title # <<>>)

\* (links || []).filter(link => link && link.title && link.url)
ValidLinks(links) == SelectSeq(links, LAMBDA link : link.title # <<>> /\ link.url # <<>>)

\* a { title, url } object of the form
LinkObject(link) ==
    JsonObject(<<[k |-> KeyTitle, v |-> JsonString(link.title)],
                 [k |-> KeyUrl, v |-> JsonString(link.url)]>>)

\* { profileImageUrl, name, title, links: validLinks }
FolioData(form) ==
    With(ValidLinks(form.links), LAMBDA validLinks :
        JsonObject(<<[k |-> KeyProfileImageUrl, v |-> form.profileImageUrl],
                     [k |-> KeyName, v |-> form.name],
                     [k |-> KeyTitle, v |-> form.title],
                     [k |-> KeyLinks,
                      v |-> JsonArray([n \in 1..Len(validLinks) |->
                                          LinkObject(validLinks[n])])]>>))

\* the LinkFolio case of the payload effect: [ok, value], not ok when
\* utf8ToBase64 throws
LinkFolioValue(form, address, wellFormed) ==
    With(JsonStringify(FolioData(form), wellFormed), LAMBDA jsonString :
    With(Utf8ToBase64(jsonString), LAMBDA base64String :
        IF base64String.ok
        THEN [ok |-> TRUE,
              value |-> BaseAppUrl(address) \o FolioQuery
                        \o EncodeURIComponent(base64String.token)]
        ELSE [ok |-> FALSE, value |-> <<>>]))

(***************************************************************************)
(*                FolioCodec, consuming side: App and FolioPage            *)
(***************************************************************************)
\* the mantissa of a number's text has no digit but 0
RECURSIVE IsZeroFrom(_, _)
IsZeroFrom(text, i) ==
    \/ i > Len(text)
    \/ text[i] \in {69, 101}
    \/ text[i] \in {45, 46, 48} /\ IsZeroFrom(text, i + 1)

\* ToBoolean(v)
Truthy(v) ==
    IF v.t = "string" THEN v.s # <<>>
    ELSE IF v.t = "number" THEN ~IsZeroFrom(v.s, 1)
    ELSE v.t \in {"true", "array", "object"}

\* v[key] for a key that no prototype defines: an own member of an object,
\* undefined otherwise
Get(v, key) ==
    IF v.t = "object" /\ \E n \in 1..Len(v.kv) : v.kv[n].k = key
    THEN v.kv[CHOOSE n \in 1..Len(v.kv) : v.kv[n].k = key].v
    ELSE Undefined

\* v.length
LengthOf(v) ==
    IF v.t = "array" THEN [t |-> "count", n |-> Len(v.kv)]
    ELSE IF v.t = "string" THEN [t |-> "count", n |-> Len(v.s)]
    ELSE [t |-> "value", v |-> Get(v, KeyLength)]

\* v > 0 for a JSON value v: ToNumber of a number, a boolean, a string that
\* is a decimal literal, or an array of one such item
RECURSIVE GreaterThanZero(_)
GreaterThanZero(v) ==
    IF v.t = "number" THEN v.s[1] # 45 /\ ~IsZeroFrom(v.s, 1)
    ELSE IF v.t = "true" THEN TRUE
    ELSE IF v.t = "string"
    THEN With(JsonParse(v.s), LAMBDA number :
             number.ok /\ number.v.t = "number" /\ number.v.s[1] # 45
             /\ ~IsZeroFrom(number.v.s, 1))
    ELSE IF v.t = "array" /\ Len(v.kv) = 1 /\ v.kv[1].t \in {"number", "string", "array"}
    THEN GreaterThanZero(v.kv[1])
    ELSE FALSE

\* Object.keys(v).length: [ok, n]; Object.keys throws TypeError on null
ObjectKeysLength(v) ==
    IF v.t \in {"null", "undefined"} THEN [ok |-> FALSE, n |-> 0]
    ELSE IF v.t \in {"object", "array"} THEN [ok |-> TRUE, n |-> Len(v.kv)]
    ELSE IF v.t = "string" THEN [ok |-> TRUE, n |-> Len(v.s)]
    ELSE [ok |-> TRUE, n |-> 0]

\* React renders v as a child: text, nothing, or the items of an array; a
\* plain object is "not valid as a React child" and the render throws
RECURSIVE IsValidChild(_)
IsValidChild(v) ==
    IF v.t = "object" THEN FALSE
    ELSE IF v.t = "array" THEN \A n \in 1..Len(v.kv) : IsValidChild(v.kv[n])
    ELSE TRUE

\* const data = useMemo(...): the parsed value, null when anything throws
FolioPageData(encodedData) ==
    IF encodedData = <<>> THEN JsonNull
    ELSE With(JsonParse(Base64ToUtf8(encodedData)), LAMBDA parsedData :
             IF ~parsedData.ok THEN JsonNull
             ELSE With(ObjectKeysLength(parsedData.v), LAMBDA keys :
                      IF ~keys.ok \/ keys.n = 0 THEN JsonNull ELSE parsedData.v))

\* v1 || v2
OrElse(v1, v2) == IF Truthy(v1) THEN v1 ELSE v2

\* the render of FolioPage: [page, data, links]; page is "invalid" for the
\* Invalid Link Folio screen, "profile" for the card, "crash" when the render
\* throws; links are the anchors of the card
FolioPage(encodedData) ==
    With(FolioPageData(encodedData), LAMBDA data :
    With(Get(data, KeyName), LAMBDA name :
    With(Get(data, KeyTitle), LAMBDA title :
    With(Get(data, KeyLinks), LAMBDA links :
    With(LengthOf(links), LAMBDA length :
    With(/\ Truthy(links)
         /\ IF length.t = "count" THEN length.n > 0 ELSE GreaterThanZero(length.v),
         LAMBDA hasLinks :
    With(IF hasLinks /\ links.t = "array"
         THEN SelectSeq(links.kv, LAMBDA link : Truthy(link) /\ Truthy(Get(link, KeyUrl)))
         ELSE <<>>, LAMBDA shown :
    With([n \in 1..Len(shown) |->
             [href |-> Get(shown[n], KeyUrl),
              text |-> OrElse(Get(shown[n], KeyTitle), Get(shown[n], KeyUrl))]],
         LAMBDA anchors :
        IF ~Truthy(data) \/ ObjectKeysLength(data).n = 0
        THEN [page |-> "invalid", data |-> data, links |-> <<>>]
        ELSE IF \/ Truthy(name) /\ ~IsValidChild(name)
                \/ Truthy(title) /\ ~IsValidChild(title)
                \* links.filter is not a function
                \/ hasLinks /\ links.t # "array"
                \/ \E n \in 1..Len(anchors) : ~IsValidChild(anchors[n].text)
        THEN [page |-> "crash", data |-> data, links |-> <<>>]
        ELSE [page |-> "profile", data |-> data, links |-> anchors]))))))))

\* the render of App at address: the folio page when the address has a
\* non-empty folio parameter, the generator otherwise
App(address) ==
    With(address, LAMBDA href :
    With(SearchParamsGet(LocationSearch(href), FolioParam), LAMBDA folioData :
        IF folioData.found /\ folioData.value # <<>>
        THEN [route |-> "folio", encodedData |-> folioData.value]
             @@ FolioPage(folioData.value)
        ELSE [route |-> "generator", encodedData |-> <<>>, page |-> "generator",
              data |-> Undefined, links |-> <<>>]))

(***************************************************************************)
(*          PayloadEncoder: the switch of the payload effect               *)
(* The form of a kind other than Link Folio maps field ids to strings, or  *)
(* to undefined for a field it does not hold.                              *)
(***************************************************************************)
\* qrData[id] || ''
OrEmpty(data, id) == IF Truthy(data[id]) THEN data[id].s ELSE <<>>

\* encodeURIComponent(str): [ok, text], not ok when it throws URIError on a
\* lone surrogate
EncodeURIComponentOrThrow(str) ==
    [ok |-> Utf8Bytes(str).ok, text |-> EncodeURIComponent(str)]

\* formatDateTimeForICS(dateTime)
FormatDateTimeForICS(dateTime) ==
    IF ~Truthy(dateTime) THEN <<>>
    ELSE With(SelectSeq(dateTime.s, LAMBDA c : c \notin {45, 58}), LAMBDA replaced :
             SubSeq(replaced, 1, FirstIndex(replaced, 46, 1) - 1) \o <<90>>)

\* "nopass", "WPA"
NoPass == <<110, 111, 112, 97, 115, 115>>
Wpa == <<87, 80, 65>>

\* case QrCodeType.WiFi
WifiValue(data) ==
    With(IF Truthy(data.encryption) THEN data.encryption.s ELSE Wpa, LAMBDA enc :
        \* "WIFI:S:", ";T:", ";"
        <<87, 73, 70, 73, 58, 83, 58>> \o OrEmpty(data, "ssid")
        \o <<59, 84, 58>> \o enc \o <<59>>
        \* "P:", ";"
        \o (IF enc # NoPass /\ Truthy(data.password)
            THEN <<80, 58>> \o data.password.s \o <<59>> ELSE <<>>)
        \o <<59>>)

\* case QrCodeType.Email: [ok, value]
EmailValue(data) ==
    With(EncodeURIComponentOrThrow(OrEmpty(data, "subject")), LAMBDA subject :
    With(EncodeURIComponentOrThrow(OrEmpty(data, "body")), LAMBDA body :
        [ok |-> subject.ok /\ body.ok,
         \* "mailto:", "?subject=", "&body="
         value |-> <<109, 97, 105, 108, 116, 111, 58>> \o OrEmpty(data, "email")
                   \o <<63, 115, 117, 98, 106, 101, 99, 116, 61>> \o subject.text
                   \o <<38, 98, 111, 100, 121, 61>> \o body.text]))

\* case QrCodeType.SMS: [ok, value]
SmsValue(data) ==
    With(EncodeURIComponentOrThrow(OrEmpty(data, "message")), LAMBDA message :
        [ok |-> message.ok,
         \* "smsto:", ":"
         value |-> <<115, 109, 115, 116, 111, 58>> \o OrEmpty(data, "phone") \o <<58>>
                   \o message.text])

\* case QrCodeType.Geo: "geo:", ","
GeoValue(data) ==
    <<103, 101, 111, 58>> \o OrEmpty(data, "latitude") \o <<44>> \o OrEmpty(data, "longitude")

\* case QrCodeType.VCard: the lines BEGIN:VCARD, VERSION:3.0, N:, FN:, ORG:,
\* TITLE:, TEL;TYPE=WORK,VOICE:, EMAIL:, URL:, END:VCARD
VCardValue(data) ==
    <<66, 69, 71, 73, 78, 58, 86, 67, 65, 82, 68, 10, 86, 69, 82, 83, 73,
      79, 78, 58, 51, 46, 48, 10, 78, 58>>
    \o OrEmpty(data, "lastName") \o <<59>> \o OrEmpty(data, "firstName")
    \o <<10, 70, 78, 58>> \o OrEmpty(data, "firstName") \o <<32>> \o OrEmpty(data, "lastName")
    \o <<10, 79, 82, 71, 58>> \o OrEmpty(data, "organization")
    \o <<10, 84, 73, 84, 76, 69, 58>> \o OrEmpty(data, "title")
    \o <<10, 84, 69, 76, 59, 84, 89, 80, 69, 61, 87, 79, 82, 75, 44, 86, 79,
         73, 67, 69, 58>>
    \o OrEmpty(data, "phone")
    \o <<10, 69, 77, 65, 73, 76, 58>> \o OrEmpty(data, "email")
    \o <<10, 85, 82, 76, 58>> \o OrEmpty(data, "website")
    \o <<10, 69, 78, 68, 58, 86, 67, 65, 82, 68>>

\* case QrCodeType.Event: the lines BEGIN:VEVENT, SUMMARY:, LOCATION:, DTSTART:,
\* DTEND:, DESCRIPTION:, END:VEVENT
EventValue(data) ==
    <<66, 69, 71, 73, 78, 58, 86, 69, 86, 69, 78, 84, 10, 83, 85, 77, 77,
      65, 82, 89, 58>>
    \o OrEmpty(data, "summary")
    \o <<10, 76, 79, 67, 65, 84, 73, 79, 78, 58>> \o OrEmpty(data, "location")
    \o <<10, 68, 84, 83, 84, 65, 82, 84, 58>> \o FormatDateTimeForICS(data.dtstart)
    \o <<10, 68, 84, 69, 78, 68, 58>> \o FormatDateTimeForICS(data.dtend)
    \o <<10, 68, 69, 83, 67, 82, 73, 80, 84, 73, 79, 78, 58>>
    \o OrEmpty(data, "description")
    \o <<10, 69, 78, 68, 58, 86, 69, 86, 69, 78, 84>>

\* a WhatsApp case that keeps the phone as typed
WhatsAppValueRawPhone(data) ==
    With(<<104, 116, 116, 112, 115, 58, 47, 47, 119, 97, 46, 109, 101, 47>> \o OrEmpty(data, "phone"), LAMBDA waUrl :
        IF ~Truthy(data.message) THEN [ok |-> TRUE, value |-> waUrl]
        ELSE With(EncodeURIComponentOrThrow(data.message.s), LAMBDA message :
                 [ok |-> message.ok,
                  value |-> waUrl \o <<63, 116, 101, 120, 116, 61>> \o message.text]))

\* case QrCodeType.WhatsApp: [ok, value]
WhatsAppValue(data) ==
    \* "https://wa.me/" and (phone || '').replace(/\D/g, '')
    With(<<104, 116, 116, 112, 115, 58, 47, 47, 119, 97, 46, 109, 101, 47>>
         \o SelectSeq(OrEmpty(data, "phone"), IsDigit), LAMBDA waUrl :
        IF ~Truthy(data.message) THEN [ok |-> TRUE, value |-> waUrl]
        ELSE With(EncodeURIComponentOrThrow(data.message.s), LAMBDA message :
                 \* "?text="
                 [ok |-> message.ok,
                  value |-> waUrl \o <<63, 116, 101, 120, 116, 61>> \o message.text]))

\* the try block of the payload effect up to `value`: [ok, value], not ok
\* when it throws
EncodePayload(type, data, address, wellFormed) ==
    IF type = "url" THEN [ok |-> TRUE, value |-> OrEmpty(data, "url")]
    ELSE IF type = "text" THEN [ok |-> TRUE, value |-> OrEmpty(data, "text")]
    ELSE IF type = "wifi" THEN [ok |-> TRUE, value |-> WifiValue(data)]
    ELSE IF type = "email" THEN EmailValue(data)
    ELSE IF type = "sms" THEN SmsValue(data)
    ELSE IF type = "geo" THEN [ok |-> TRUE, value |-> GeoValue(data)]
    ELSE IF type = "vcard" THEN [ok |-> TRUE, value |-> VCardValue(data)]
    ELSE IF type = "event" THEN [ok |-> TRUE, value |-> EventValue(data)]
    ELSE IF type = "whatsapp" THEN WhatsAppValue(data)
    ELSE LinkFolioValue(data, address, wellFormed)

(***************************************************************************)
(*                 The inputs of the codec, and its two sides              *)
(***************************************************************************)
\* the sequences of at most n members of S
RECURSIVE SeqsUpTo(_, _)
SeqsUpTo(S, n) ==
    IF n = 0 THEN {<<>>}
    ELSE LET shorter == SeqsUpTo(S, n - 1) IN
         shorter \cup {Append(s, c) : s \in shorter, c \in S}

\* a field of the form is a string, or undefined when it was never set:
\* undefined, '', "\ud83d" (a lone surrogate), and "\u00e9\ud83d\ude00\"" (an
\* accented letter, an emoji, which is a surrogate pair, and a quote)
NameSamples ==
    {Undefined, JsonString(<<>>), JsonString(<<55357>>),
     JsonString(<<233, 55357, 56832, 34>>)}

\* "Jos\u00e9 \ud83c\udf89"
TitleSamples == {Undefined, JsonString(<<74, 111, 115, 233, 32, 55356, 57225>>)}

\* '', "//i/?a=1&b=+/"
ImageSamples ==
    {JsonString(<<>>), JsonString(<<47, 47, 105, 47, 63, 97, 61, 49, 38, 98, 61, 43, 47>>)}

\* { title: '', url: '//u' }, { title: '\u4e2d', url: '' },
\* { title: '\u4e2d', url: '//u' }, { title: 'b', url: '//v' }
LinkSamples ==
    {[title |-> <<>>, url |-> <<47, 47, 117>>], [title |-> <<20013>>, url |-> <<>>],
     [title |-> <<20013>>, url |-> <<47, 47, 117>>], [title |-> <<98>>, url |-> <<47, 47, 118>>]}

FolioForms ==
    [profileImageUrl : ImageSamples, name : NameSamples, title : TitleSamples,
     links : SeqsUpTo(LinkSamples, MaxLinks)]

\* the form handleTypeChange(LinkFolio) installs
DefaultFolio ==
    [profileImageUrl |-> JsonString(<<>>), name |-> JsonString(<<>>),
     title |-> JsonString(<<>>),
     links |-> <<[title |-> <<87, 101, 98, 115, 105, 116, 101>>,
                  url |-> <<104, 116, 116, 112, 115, 58, 47, 47>>]>>]

\* "http://h/", "http://h/?x=1"
Addresses ==
    {<<104, 116, 116, 112, 58, 47, 47, 104, 47>>,
     <<104, 116, 116, 112, 58, 47, 47, 104, 47, 63, 120, 61, 49>>}

\* texts a link made elsewhere can carry in its token
ForeignTexts ==
    {\* an empty object: {}
     <<123, 125>>,
     \* an object with an unknown key only: {"foo":1}
     <<123, 34, 102, 111, 111, 34, 58, 49, 125>>,
     \* a JSON string: "abc"
     <<34, 97, 98, 99, 34>>,
     \* a JSON array: [1]
     <<91, 49, 93>>,
     \* a JSON number: 5
     <<53>>,
     \* null: null
     <<110, 117, 108, 108>>,
     \* links is a string: {"links":"x"}
     <<123, 34, 108, 105, 110, 107, 115, 34, 58, 34, 120, 34, 125>>,
     \* links is a list of numbers: {"links":[1]}
     <<123, 34, 108, 105, 110, 107, 115, 34, 58, 91, 49, 93, 125>>,
     \* links is an object: {"links":{"length":1}}
     <<123, 34, 108, 105, 110, 107, 115, 34, 58, 123, 34, 108, 101, 110,
       103, 116, 104, 34, 58, 49, 125, 125>>,
     \* links is a number: {"name":"A","links":5}
     <<123, 34, 110, 97, 109, 101, 34, 58, 34, 65, 34, 44, 34, 108, 105,
       110, 107, 115, 34, 58, 53, 125>>,
     \* name is an object: {"name":{"a":1}}
     <<123, 34, 110, 97, 109, 101, 34, 58, 123, 34, 97, 34, 58, 49, 125,
       125>>,
     \* a well-formed profile: {"name":"A","links":[{"title":"t","url":"u"}]}
     <<123, 34, 110, 97, 109, 101, 34, 58, 34, 65, 34, 44, 34, 108, 105,
       110, 107, 115, 34, 58, 91, 123, 34, 116, 105, 116, 108, 101, 34, 58,
       34, 116, 34, 44, 34, 117, 114, 108, 34, 58, 34, 117, 34, 125, 93,
       125>>,
     \* a profile with links the producer would have dropped: {"name":"A","links":[{"title":"","url":"u"},{"title":"t","url":""}]}
     <<123, 34, 110, 97, 109, 101, 34, 58, 34, 65, 34, 44, 34, 108, 105,
       110, 107, 115, 34, 58, 91, 123, 34, 116, 105, 116, 108, 101, 34, 58,
       34, 34, 44, 34, 117, 114, 108, 34, 58, 34, 117, 34, 125, 44, 123, 34,
       116, 105, 116, 108, 101, 34, 58, 34, 116, 34, 44, 34, 117, 114, 108,
       34, 58, 34, 34, 125, 93, 125>>,
     \* truncated JSON: {"name":"A"
     <<123, 34, 110, 97, 109, 101, 34, 58, 34, 65, 34>>,
     \* not JSON: hello
     <<104, 101, 108, 108, 111>>}

\* the tokens of those texts, whole and cut short by three or four
\* characters, the empty token, a token that is not base64 ("e30*") and one
\* whose bytes are not UTF-8
ForeignTokens ==
    LET whole == {Utf8ToBase64(text).token : text \in ForeignTexts} IN
    whole \cup {SubSeq(token, 1, Len(token) - cut) : token \in whole, cut \in {3, 4}}
          \cup {<<>>, <<101, 51, 48, 42>>, Btoa(<<123, 34, 255, 34, 125>>)}

\* the browser of the visitor before it opens anything
ViewerClosed ==
    [route |-> "closed", encodedData |-> <<>>, page |-> "none", data |-> Undefined,
     links |-> <<>>]

NoPayload == [made |-> FALSE, ok |-> FALSE, value |-> <<>>]

\* the form the component starts with, { url: 'https://ai.google.dev' }, not
\* yet encoded
NoEncoding ==
    [type |-> "url",
     data |-> [url |-> JsonString(<<104, 116, 116, 112, 115, 58, 47, 47, 97, 105, 46,
                                    103, 111, 111, 103, 108, 101, 46, 100, 101, 118>>)],
     made |-> FALSE, ok |-> FALSE, value |-> <<>>]

(***************************************************************************)
(*                               QrScanner                                 *)
(* The component's React state, the <video> element's stream, the streams  *)
(* the camera has handed out, and the suspended handlers: startScan calls  *)
(* awaiting the camera or play(), the pending animation frame, uploads     *)
(* being read and scanned, and the repair in flight.  A setter called      *)
(* after the unmount changes nothing; refs are null after the unmount.     *)
(***************************************************************************)
\* startScan calls made on one mounted scanner
MaxStarts == 2

\* null, for scannedData and failedUpload
NoData == "null"

\* an uploaded image in which jsQR finds a code, and one in which it finds none
Images == {"clear", "damaged"}

\* scanImage: code?.data || null, null without the canvas
ScanImage(image, canvas) ==
    IF canvas /\ image = "clear" THEN "imageText" ELSE NoData

\* the scanner tab is not open
ScannerUnmounted ==
    [mounted |-> FALSE, scannedData |-> NoData, error |-> NoError,
     isScanning |-> FALSE, isAiRepairing |-> FALSE, failedUpload |-> NoData,
     srcObject |-> 0, tracks |-> <<>>, calls |-> 0, started |-> 0,
     playing |-> {}, animationFrameId |-> FALSE, uploads |-> {},
     repair |-> [pc |-> "idle", image |-> NoData]]

\* the component as mounted
ScannerMounted == [ScannerUnmounted EXCEPT !.mounted = TRUE]

\* a render of new state, which an unmounted component no longer does
SetState(s, next) == IF s.mounted THEN next ELSE s

\* stream.getTracks().forEach(track => track.stop()); srcObject = null, when
\* the video element is there and holds a stream; setIsScanning(false), whose
\* re-render runs the cleanup of the scan-loop effect
stopScan(s, video) ==
    LET released ==
            IF video /\ s.srcObject # 0
            THEN [s EXCEPT !.tracks[s.srcObject] = "ended", !.srcObject = 0]
            ELSE s IN
    SetState(released, [released EXCEPT !.isScanning = FALSE,
                                        !.animationFrameId = FALSE])

\* every stream the camera handed out has had its tracks stopped
AllStopped(s) == \A i \in 1..Len(s.tracks) : s.tracks[i] = "ended"

\* Start Camera (shown while !isScanning): the resets, then getUserMedia
StartScan ==
    /\ scanner.mounted
    /\ ~scanner.isScanning
    /\ scanner.started < MaxStarts
    /\ scanner' = [scanner EXCEPT !.scannedData = NoData, !.error = NoError,
                                  !.failedUpload = NoData, !.calls = @ + 1,
                                  !.started = @ + 1]
    /\ UNCHANGED <<genVars, folioVars>>

\* await getUserMedia(...): the stream is put on the video element and play()
\* is awaited, or the catch sets the error; without the element the stream is
\* dropped as it came
GetUserMediaSettled(outcome) ==
    /\ scanner.calls > 0
    /\ scanner' =
          IF outcome = "rejects"
          THEN SetState([scanner EXCEPT !.calls = @ - 1],
                        [scanner EXCEPT !.calls = @ - 1, !.error = "camera"])
          ELSE LET stream == Len(scanner.tracks) + 1
                   got == [scanner EXCEPT !.calls = @ - 1,
                                          !.tracks = Append(@, "live")] IN
               IF scanner.mounted
               THEN [got EXCEPT !.srcObject = stream, !.playing = @ \cup {stream}]
               ELSE got
    /\ UNCHANGED <<genVars, folioVars>>

\* await videoRef.current.play(): setIsScanning(true), whose effect requests
\* the first frame, or the catch sets the error.  play() is rejected when the
\* element's stream was replaced or removed meanwhile
PlaySettled(stream, outcome) ==
    /\ stream \in scanner.playing
    /\ outcome = "resolves" => scanner.srcObject = stream
    /\ LET done == [scanner EXCEPT !.playing = @ \ {stream}] IN
       scanner' =
          IF outcome = "resolves"
          THEN SetState(done, [done EXCEPT !.isScanning = TRUE,
                                           !.animationFrameId = TRUE])
          ELSE SetState(done, [done EXCEPT !.error = "camera"])
    /\ UNCHANGED <<genVars, folioVars>>

\* Stop Camera (shown while isScanning)
StopCamera ==
    /\ scanner.mounted
    /\ scanner.isScanning
    /\ scanner' = stopScan(scanner, TRUE)
    /\ UNCHANGED <<genVars, folioVars>>

\* tick, on a frame in which jsQR finds a code: setScannedData(code.data);
\* stopScan(); return.  A frame without a code requests the next frame and
\* changes nothing
Tick ==
    /\ scanner.animationFrameId
    /\ scanner.srcObject # 0
    /\ scanner' = stopScan([scanner EXCEPT !.scannedData = "frameText"], TRUE)
    /\ UNCHANGED <<genVars, folioVars>>

\* handleFileChange: the file is handed to the FileReader
HandleFileChange(image) ==
    /\ scanner.mounted
    /\ image \notin scanner.uploads
    /\ scanner' = [scanner EXCEPT !.uploads = @ \cup {image}]
    /\ UNCHANGED <<genVars, folioVars>>

\* reader.onload and the awaited scanImage: the three setters of either branch
UploadScanned(image) ==
    /\ image \in scanner.uploads
    /\ LET data == ScanImage(image, scanner.mounted)
           done == [scanner EXCEPT !.uploads = @ \ {image}] IN
       scanner' =
          IF data # NoData
          THEN SetState(done, [done EXCEPT !.scannedData = data, !.error = NoError,
                                           !.failedUpload = NoData])
          ELSE SetState(done, [done EXCEPT !.scannedData = NoData,
                                           !.error = "noCode",
                                           !.failedUpload = image])
    /\ UNCHANGED <<genVars, folioVars>>

\* Attempt AI Repair (disabled while isAiRepairing || !failedUpload)
AttemptAiRepair ==
    /\ scanner.mounted
    /\ ~scanner.isAiRepairing
    /\ scanner.failedUpload # NoData
    /\ scanner' = [scanner EXCEPT !.isAiRepairing = TRUE, !.error = NoError,
                                  !.scannedData = NoData,
                                  !.repair = [pc |-> "repair",
                                              image |-> scanner.failedUpload]]
    /\ UNCHANGED <<genVars, folioVars>>

\* await repairQrCodeWithAI(failedUpload): the same image after 1500 ms
RepairSettled ==
    /\ scanner.repair.pc = "repair"
    /\ scanner' = [scanner EXCEPT !.repair.pc = "scan"]
    /\ UNCHANGED <<genVars, folioVars>>

\* await scanImage(repairedImage), either branch, and finally
RepairScanned ==
    /\ scanner.repair.pc = "scan"
    /\ LET data == ScanImage(scanner.repair.image, scanner.mounted)
           done == [scanner EXCEPT !.repair = [pc |-> "idle", image |-> NoData]] IN
       scanner' =
          IF data # NoData
          THEN SetState(done, [done EXCEPT !.scannedData = data,
                                           !.failedUpload = NoData,
                                           !.isAiRepairing = FALSE])
          ELSE SetState(done, [done EXCEPT !.error = "repairFailed",
                                           !.isAiRepairing = FALSE])
    /\ UNCHANGED <<genVars, folioVars>>

\* the tab is left: the cleanups cancel the frame and call stopScan, which
\* finds the video element or, when the ref is detached already, null
Unmount(detached) ==
    /\ scanner.mounted
    /\ scanner' = [stopScan(scanner, ~detached) EXCEPT !.mounted = FALSE]
    /\ UNCHANGED <<genVars, folioVars>>

\* no Link Folio is made or opened
InitFolioIdle ==
    /\ folioForm = DefaultFolio
    /\ pageAddress = CHOOSE address \in Addresses : LocationSearch(address) = <<>>
    /\ folioPayload = NoPayload
    /\ inbound = [kind |-> "payload", token |-> <<>>]
    /\ viewer = ViewerClosed
    /\ encoder = NoEncoding
    /\ scanner = ScannerUnmounted

\* the generator as constructed, and either a form is filled in, to be encoded
\* and its payload scanned, or the visitor follows a link made elsewhere
InitFolio ==
    /\ InitGenerator
    /\ \/ /\ folioForm \in FolioForms
          /\ pageAddress \in Addresses
          /\ inbound = [kind |-> "payload", token |-> <<>>]
       \/ /\ folioForm = DefaultFolio
          /\ pageAddress \in Addresses
          /\ inbound \in [kind : {"link"}, token : ForeignTokens]
    /\ folioPayload = NoPayload
    /\ viewer = ViewerClosed
    /\ encoder = NoEncoding
    /\ scanner = ScannerUnmounted

\* the payload effect with qrType = LinkFolio and the form as qrData
EncodeLinkFolio ==
    /\ inbound.kind = "payload"
    /\ ~folioPayload.made
    /\ folioPayload' =
           [made |-> TRUE] @@ LinkFolioValue(folioForm, pageAddress, wellFormedStringify)
    /\ UNCHANGED <<genVars, folioForm, pageAddress, inbound, viewer, encoder,
                   scanner>>

\* the visitor scans the code and the browser opens its payload
ScanPayload ==
    /\ folioPayload.made
    /\ folioPayload.ok
    /\ viewer.route = "closed"
    /\ viewer' = App(folioPayload.value)
    /\ UNCHANGED <<genVars, folioForm, pageAddress, folioPayload, inbound, encoder,
                   scanner>>

\* the visitor follows a link whose folio parameter is the inbound token
FollowLink ==
    /\ inbound.kind = "link"
    /\ viewer.route = "closed"
    /\ viewer' = App(BaseAppUrl(pageAddress) \o FolioQuery \o EncodeURIComponent(inbound.token))
    /\ UNCHANGED <<genVars, folioForm, pageAddress, folioPayload, inbound, encoder,
                   scanner>>

(***************************************************************************)
(* PayloadEncoder on its own: a form of some kind is encoded once.         *)
(***************************************************************************)
\* undefined, '', "A b;&é", "\ud83d" (a lone surrogate)
TextSamples ==
    {Undefined, JsonString(<<>>), JsonString(<<65, 32, 98, 59, 38, 233>>),
     JsonString(<<55357>>)}

\* undefined, "A b;&é"
OptionalSamples == {Undefined, JsonString(<<65, 32, 98, 59, 38, 233>>)}

\* undefined and the options of the select: "WPA", "WEP", "nopass"
EncryptionSamples ==
    {Undefined, JsonString(Wpa), JsonString(<<87, 69, 80>>), JsonString(NoPass)}

\* undefined, '', "+1 (5) 9-0", "+1 (555) 123-4567"
PhoneSamples ==
    {Undefined, JsonString(<<>>),
     JsonString(<<43, 49, 32, 40, 53, 41, 32, 57, 45, 48>>),
     JsonString(<<43, 49, 32, 40, 53, 53, 53, 41, 32, 49, 50, 51, 45, 52, 53, 54, 55>>)}

\* undefined, '', "-1.5"
NumberSamples == {Undefined, JsonString(<<>>), JsonString(<<45, 49, 46, 53>>)}

\* undefined, '', "2024-05-01T10:30", "2024-05-01T10:30:00.000"
DateTimeSamples ==
    {Undefined, JsonString(<<>>),
     JsonString(<<50, 48, 50, 52, 45, 48, 53, 45, 48, 49, 84, 49, 48, 58, 51, 48>>),
     JsonString(<<50, 48, 50, 52, 45, 48, 53, 45, 48, 49, 84, 49, 48, 58, 51, 48, 58, 48, 48, 46, 48, 48, 48>>)}

\* the kinds of QR_CODE_TYPES other than Link Folio
PlainTypes == {"url", "text", "wifi", "email", "sms", "geo", "vcard", "event", "whatsapp"}

\* the forms of a kind: the fields QR_CODE_TYPES gives it
FormsOf(type) ==
    IF type = "url" THEN [url : TextSamples]
    ELSE IF type = "text" THEN [text : TextSamples]
    ELSE IF type = "wifi"
    THEN [ssid : TextSamples, password : TextSamples, encryption : EncryptionSamples]
    ELSE IF type = "email"
    THEN [email : TextSamples, subject : TextSamples, body : TextSamples]
    ELSE IF type = "sms" THEN [phone : PhoneSamples, message : TextSamples]
    ELSE IF type = "geo" THEN [latitude : NumberSamples, longitude : NumberSamples]
    ELSE IF type = "vcard"
    THEN [firstName : TextSamples, lastName : TextSamples, phone : PhoneSamples,
          email : OptionalSamples, organization : OptionalSamples,
          title : OptionalSamples, website : OptionalSamples]
    ELSE IF type = "event"
    THEN [summary : TextSamples, dtstart : DateTimeSamples, dtend : DateTimeSamples,
          location : OptionalSamples, description : OptionalSamples]
    ELSE IF type = "whatsapp" THEN [phone : PhoneSamples, message : TextSamples]
    ELSE FolioForms

\* the addresses the generator's page can be open at: those above and one
\* on another host, "http://g/"
EncoderAddresses == Addresses \cup {<<104, 116, 116, 112, 58, 47, 47, 103, 47>>}

\* some form is about to be encoded
InitEncoder ==
    /\ InitGenerator
    /\ folioForm = DefaultFolio
    /\ pageAddress \in EncoderAddresses
    /\ folioPayload = NoPayload
    /\ inbound = [kind |-> "payload", token |-> <<>>]
    /\ viewer = ViewerClosed
    /\ scanner = ScannerUnmounted
    /\ \E type \in PlainTypes \cup {"linkFolio"} : \E data \in FormsOf(type) :
           encoder = [type |-> type, data |-> data, made |-> FALSE, ok |-> FALSE,
                      value |-> <<>>]

\* the payload effect: setQrValue(value), or setQrValue('') when the try
\* block throws
Encode ==
    /\ ~encoder.made
    /\ encoder' =
           With(EncodePayload(encoder.type, encoder.data, pageAddress,
                              wellFormedStringify), LAMBDA encoded :
               [encoder EXCEPT !.made = TRUE, !.ok = encoded.ok,
                               !.value = IF encoded.ok THEN encoded.value ELSE <<>>])
    /\ UNCHANGED <<genVars, folioForm, pageAddress, folioPayload, inbound, viewer,
                   scanner>>

NextEncoder == Encode

SpecEncoder == InitEncoder /\ [][NextEncoder]_vars

Init == InitGenerator /\ InitFolioIdle

(***************************************************************************)
(* SpecScanner: the scanner tab, from its mount to after its unmount.      *)
(***************************************************************************)
\* the scanner tab as opened
InitScanner ==
    /\ InitGenerator
    /\ folioForm = DefaultFolio
    /\ pageAddress = CHOOSE address \in Addresses : LocationSearch(address) = <<>>
    /\ folioPayload = NoPayload
    /\ inbound = [kind |-> "payload", token |-> <<>>]
    /\ viewer = ViewerClosed
    /\ encoder = NoEncoding
    /\ scanner = ScannerMounted

NextScanner ==
    \/ StartScan
    \/ \E outcome \in Settled : GetUserMediaSettled(outcome)
    \/ \E stream \in scanner.playing, outcome \in Settled : PlaySettled(stream, outcome)
    \/ StopCamera
    \/ Tick
    \/ \E image \in Images : HandleFileChange(image)
    \/ \E image \in scanner.uploads : UploadScanned(image)
    \/ AttemptAiRepair
    \/ RepairSettled
    \/ RepairScanned
    \/ \E detached \in BOOLEAN : Unmount(detached)

SpecScanner == InitScanner /\ [][NextScanner]_vars


(***************************************************************************)
(* Spec: the form, the style and the debounced check of the standard code. *)
(***************************************************************************)
Next ==
    \/ \E t \in Texts : HandleInputChange(t)
    \/ \E ty \in QrCodeType : HandleTypeChange(ty)
    \/ AddLink
    \/ RemoveLink
    \/ \E s \in Styles : HandleStyleChange(s)
    \/ \E timer \in validationTimeout, capture \in Captures :
          ValidationTimeoutFires(timer, capture)

Spec == Init /\ [][Next]_vars

\* a scheduled timer callback is eventually run by the event loop
TimerRuns ==
    \E timer \in validationTimeout, capture \in Captures :
        ValidationTimeoutFires(timer, capture)

SpecLive == Spec /\ WF_vars(TimerRuns)

(***************************************************************************)
(* SpecExport: the batch export, with the form edits and the art           *)
(* generation that can interleave with its awaits.                         *)
(***************************************************************************)
NextExport ==
    \/ \E t \in Texts : HandleInputChange(t)
    \/ \E promptEmpty \in BOOLEAN : HandleGenerateArt(promptEmpty)
    \/ \E outcome \in {"blob", "null", "rejects"} : ArtRawDataSettled(outcome)
    \/ \E outcome \in Settled : ArtBase64Settled(outcome)
    \/ \E outcome \in Settled, readable \in BOOLEAN :
          ArtGenerateSettled(outcome, readable)
    \/ HandleBatchExport
    \/ ExportDelayElapsed
    \/ \E outcome \in Blobs : ExportPngSettled(outcome)
    \/ \E outcome \in Blobs : ExportSvgSettled(outcome)
    \/ \E outcome \in Settled : ExportAiSettled(outcome)
    \/ \E outcome \in Settled : ExportZipSettled(outcome)
    \/ ExportSettles

SpecExport == Init /\ [][NextExport]_vars

\* the step of the export that is due: a delay elapses, an awaited capability
\* returns or fails, the timer of finally runs
ExportStep ==
    \/ ExportDelayElapsed
    \/ \E outcome \in Blobs : ExportPngSettled(outcome)
    \/ \E outcome \in Blobs : ExportSvgSettled(outcome)
    \/ \E outcome \in Settled : ExportAiSettled(outcome)
    \/ \E outcome \in Settled : ExportZipSettled(outcome)
    \/ ExportSettles

\* SpecStages: exports of one payload, with and without an overlay; timers
\* run and every awaited capability returns or fails
NextStages ==
    \/ \E promptEmpty \in BOOLEAN : HandleGenerateArt(promptEmpty)
    \/ \E outcome \in Blobs : ArtRawDataSettled(outcome)
    \/ \E outcome \in Settled : ArtBase64Settled(outcome)
    \/ \E outcome \in Settled, readable \in BOOLEAN :
          ArtGenerateSettled(outcome, readable)
    \/ HandleBatchExport
    \/ ExportStep

SpecStages == Init /\ [][NextStages]_vars /\ WF_vars(ExportStep)

(***************************************************************************)
(* SpecOverlay: the art overlay and its manual validation, with the edits  *)
(* of the payload that can interleave with them.                           *)
(***************************************************************************)
\* the texts typed while an overlay is made or validated: none, the default
\* and one other
OverlayTexts == {0, 1, MaxText}

NextOverlay ==
    \/ \E t \in OverlayTexts : HandleInputChange(t)
    \/ \E promptEmpty \in BOOLEAN : HandleGenerateArt(promptEmpty)
    \/ \E outcome \in Blobs : ArtRawDataSettled(outcome)
    \/ \E outcome \in Settled : ArtBase64Settled(outcome)
    \/ \E outcome \in Settled, readable \in BOOLEAN :
          ArtGenerateSettled(outcome, readable)
    \/ \E contextOk \in BOOLEAN : HandleValidateAiQr(contextOk)
    \/ \E load \in aiValidation, loaded \in BOOLEAN : AiImageSettled(load, loaded)

\* the URL kind never calls JSON.stringify: one engine stands for both
InitOverlay == Init /\ wellFormedStringify = TRUE

SpecOverlay == InitOverlay /\ [][NextOverlay]_vars

(***************************************************************************)
(* SpecStatuses: both checks side by side.  The style changes, the         *)
(* debounced check of the standard code runs, art is generated and         *)
(* validated.                                                              *)
(***************************************************************************)
NextStatuses ==
    \/ \E s \in Styles : HandleStyleChange(s)
    \/ \E timer \in validationTimeout, capture \in Captures :
          ValidationTimeoutFires(timer, capture)
    \/ \E promptEmpty \in BOOLEAN : HandleGenerateArt(promptEmpty)
    \/ \E outcome \in Blobs : ArtRawDataSettled(outcome)
    \/ \E outcome \in Settled : ArtBase64Settled(outcome)
    \/ \E outcome \in Settled, readable \in BOOLEAN :
          ArtGenerateSettled(outcome, readable)
    \/ \E contextOk \in BOOLEAN : HandleValidateAiQr(contextOk)
    \/ \E load \in aiValidation, loaded \in BOOLEAN : AiImageSettled(load, loaded)

SpecStatuses == InitOverlay /\ [][NextStatuses]_vars

(***************************************************************************)
(* SpecEvents: the same with the payload changing too.  The text is       *)
(* emptied or filled in, the style is switched between the default and one *)
(* other, the check finds a 2D context or none, the art request succeeds   *)
(* or fails in its last step, and the image loads or fails to load.        *)
(***************************************************************************)
EventTexts == {0, MaxText}
EventStyles == {0, MaxStyle}

NextEvents ==
    \/ \E t \in EventTexts : HandleInputChange(t)
    \/ \E s \in EventStyles : HandleStyleChange(s)
    \/ \E timer \in validationTimeout, capture \in {"ok", "noContext"} :
          ValidationTimeoutFires(timer, capture)
    \/ HandleGenerateArt(FALSE)
    \/ ArtRawDataSettled("blob")
    \/ ArtBase64Settled("resolves")
    \/ \E outcome \in Settled : ArtGenerateSettled(outcome, TRUE)
    \/ HandleValidateAiQr(TRUE)
    \/ \E load \in aiValidation, loaded \in BOOLEAN : AiImageSettled(load, loaded)

SpecEvents == InitOverlay /\ [][NextEvents]_vars

(***************************************************************************)
(* SpecEncode: the form of both kinds, whose payload effect can fail, with *)
(* the art generation that needs a payload.                                *)
(***************************************************************************)
NextEncode ==
    \/ \E t \in Texts : HandleInputChange(t)
    \/ \E ty \in QrCodeType : HandleTypeChange(ty)
    \/ \E promptEmpty \in BOOLEAN : HandleGenerateArt(promptEmpty)
    \/ \E outcome \in Blobs : ArtRawDataSettled(outcome)
    \/ \E outcome \in Settled : ArtBase64Settled(outcome)
    \/ \E outcome \in Settled, readable \in BOOLEAN :
          ArtGenerateSettled(outcome, readable)

SpecEncode == Init /\ [][NextEncode]_vars

(***************************************************************************)
(* SpecFolio: a Link Folio is encoded and its payload opened, or a link    *)
(* made elsewhere is followed.                                             *)
(***************************************************************************)
NextFolio ==
    \/ EncodeLinkFolio
    \/ ScanPayload
    \/ FollowLink

SpecFolio == InitFolio /\ [][NextFolio]_vars


(***************************************************************************)
(*                      RenderValidationLoop                               *)
(***************************************************************************)
Verdicts == {"success", "failed"}

\* the decoder reads the current payload back from the current raster
DecodesBack == JsQR(Raster).found /\ JsQR(Raster).data = qrValue

\* C1 -- freshness: every pending check was started against the live
\* payload, every completed check published a result for the payload that
\* was live when it published, and a Success/Failed standard status always
\* comes from such a check.
C1_Freshness ==
    /\ \A timer \in validationTimeout : timer.qrValue = qrValue
    /\ lastCheck.ran => lastCheck.captured = lastCheck.live
    /\ standardQrValidationStatus \in Verdicts => lastCheck.ran

\* a check completed after a burst of two payload changes with no check
\* in between, and published for the final payload
C1_Witness ==
    /\ lastCheck.ran
    /\ lastCheck.burst >= 2
    /\ lastCheck.captured = qrValue
    /\ validationTimeout = {}
    /\ standardQrValidationStatus = "success"

\* the state the loop settles in once no check is pending
Converged ==
    /\ validationTimeout = {}
    /\ lastCheck.capture = "ok" =>
          standardQrValidationStatus = IF DecodesBack THEN "success" ELSE "failed"

\* C2 -- convergence: if payload and style eventually stay at a non-empty
\* payload p and a style s, the standard status eventually stays Success
\* when the decoder reads p back from the raster, and Failed when it reads
\* another text or finds no code.
C2_Convergence ==
    \A p \in Payloads \ {0}, s \in Styles :
        <>[](qrValue = p /\ qrStyleOptions = s) => <>[]Converged

\* both verdicts are reached with nothing pending
C2_Witness ==
    /\ Converged
    /\ lastCheck.ran /\ lastCheck.capture = "ok"
    /\ qrValue # 0
    /\ ~DecodesBack
    /\ standardQrValidationStatus = "failed"
    /\ edits = 0

\* C3 -- no stale status: a Success/Failed status was computed for the live
\* content: the standard status by a check of the live payload and style,
\* the overlay status by a check against the live payload.
C3_NoStaleStatus ==
    /\ standardQrValidationStatus \in Verdicts =>
          /\ lastCheck.captured = qrValue
          /\ lastCheck.style = qrStyleOptions
          /\ validationTimeout = {}
    /\ validationStatus \in Verdicts => overlayFor = qrValue

C4_CaptureFailure ==
    /\ qrValue = 0 => standardQrValidationStatus = "idle"
    /\ (qrValue # 0 /\ validationTimeout = {} /\ lastCheck.capture # "ok") =>
          standardQrValidationStatus = "failed"

\* a check of a non-empty payload whose pixel read threw
C4_Witness ==
    /\ qrValue # 0
    /\ validationTimeout = {}
    /\ lastCheck.ran /\ lastCheck.capture = "throws"
    /\ standardQrValidationStatus = "failed"


(***************************************************************************)
(*                          ArtOverlayValidator                            *)
(***************************************************************************)
\* the step completes an overlay check: a pending image load is consumed
OverlayCheckCompletes == \E load \in aiValidation : load \notin aiValidation'

\* the step starts an overlay check: an image load is added
OverlayCheckStarts == \E load \in aiValidation' : load \notin aiValidation

\* C11 -- overlay result: a check is started against the payload and the
\* image of the click; when it completes the overlay status is Success if
\* the image loaded and decodes to that payload, and Failed if it failed to
\* load, holds no code or decodes to another text; the overlay status turns
\* Success or Failed in no other step, so never before the user has
\* triggered a validation.
C11_OverlayResult ==
    /\ [][OverlayCheckStarts =>
             \A load \in aiValidation' \ aiValidation :
                 load.qrValue = qrValue /\ load.image = aiQrImage]_vars
    /\ [][OverlayCheckCompletes =>
             validationStatus' =
                 IF /\ lastOverlay'.loaded
                    /\ lastOverlay'.image.readable
                    /\ lastOverlay'.image.data = lastOverlay'.captured
                 THEN "success" ELSE "failed"]_vars
    /\ [][(validationStatus' \in Verdicts /\ validationStatus' # validationStatus)
             => OverlayCheckCompletes]_vars
    /\ [](validationStatus \in Verdicts => lastOverlay.ran /\ overlayStarted > 0)

\* an overlay made for an earlier payload loaded and decoded, to a text
\* other than the payload of the click: Failed
C11_Witness ==
    /\ lastOverlay.ran
    /\ lastOverlay.loaded
    /\ lastOverlay.image.readable
    /\ lastOverlay.image.data # lastOverlay.captured
    /\ validationStatus = "failed"
    /\ aiQrImage = lastOverlay.image

\* C25 -- overlay image freshness: an overlay image that is held was made
\* from the live payload; a step that changes the payload leaves no image
\* held; and a generation request installs its image only if the payload is
\* still the one it was started for.
C25_OverlayFreshness ==
    /\ [](aiQrImage.has => aiQrImage.data = qrValue)
    /\ [][qrValue' # qrValue => ~aiQrImage'.has]_vars
    /\ [][(~aiQrImage.has /\ aiQrImage'.has) => artTask.data = qrValue]_vars

\* C26 -- overlay status soundness: while the overlay status is Success an
\* overlay image is held, it is the image the last check loaded, and it
\* decodes to the live payload; and a check whose image load settles after
\* the payload changed or after a new art generation started leaves the
\* status as it is.
C26_OverlaySoundness ==
    /\ [](validationStatus = "success" =>
            /\ aiQrImage.has
            /\ lastOverlay.image = aiQrImage
            /\ JsQRImage(aiQrImage).found
            /\ JsQRImage(aiQrImage).data = qrValue)
    /\ [][\A load \in aiValidation \ aiValidation' :
             (load.qrValue # qrValue \/ load.image # aiQrImage \/ isLoading) =>
                 validationStatus' = validationStatus]_vars

\* C16 -- supersession: a check publishes its result only while it is the
\* newest check started for its artifact.  At most one debounced timer of the
\* standard check is pending, and an overlay check that completes is the last
\* one the user started, for the image still displayed, with no new art
\* generation under way.
C16_Supersession ==
    /\ [](Cardinality(validationTimeout) <= 1)
    /\ [][\A load \in aiValidation \ aiValidation' :
             /\ load.seq = overlayStarted
             /\ load.image = aiQrImage
             /\ ~isLoading]_vars

(***************************************************************************)
(*                  Both validation statuses together                      *)
(***************************************************************************)
\* the step turns the standard status, or the overlay status, to a verdict
StandardVerdictSet ==
    /\ standardQrValidationStatus' \in Verdicts
    /\ standardQrValidationStatus' # standardQrValidationStatus
OverlayVerdictSet ==
    /\ validationStatus' \in Verdicts
    /\ validationStatus' # validationStatus

\* the step runs the callback of the debounced timer: the timer goes while
\* payload and style stay (the cleanup of the effect removes a timer only
\* when one of them changes)
StandardCheckCompletes ==
    /\ \E timer \in validationTimeout : timer \notin validationTimeout'
    /\ qrValue' = qrValue
    /\ qrStyleOptions' = qrStyleOptions

\* C17 as stated -- status transitions only from decode attempts: either
\* status turns Success or Failed only in a step that completes a decode
\* attempt on a raster: the standard check with the surface mounted, a 2D
\* context and a readable canvas, the overlay check with the image loaded.
C17_OnlyFromDecode ==
    /\ [][StandardVerdictSet =>
             /\ StandardCheckCompletes
             /\ qrContainerRef = "div"
             /\ lastCheck'.capture = "ok"]_vars
    /\ [][OverlayVerdictSet => OverlayCheckCompletes /\ lastOverlay'.loaded]_vars

\* C17, amended -- either status turns Success or Failed only in the step
\* that completes one of its own checks, the callback of the debounced timer
\* or the settling of the image load; it turns Success only when that check
\* acquired its raster and the decode gave the expected payload, and a check
\* that cannot acquire its raster completes as Failed.  No payload change,
\* style change or art generation step turns a status Success or Failed.
C17_OnlyFromChecks ==
    /\ [][StandardVerdictSet =>
             /\ StandardCheckCompletes
             /\ standardQrValidationStatus' = "success" =>
                    /\ qrContainerRef = "div"
                    /\ lastCheck'.capture = "ok"
                    /\ JsQR(Raster).found
                    /\ JsQR(Raster).data = lastCheck'.captured
             /\ (qrContainerRef # "div" \/ lastCheck'.capture # "ok") =>
                    standardQrValidationStatus' = "failed"]_vars
    /\ [][OverlayVerdictSet =>
             /\ OverlayCheckCompletes
             /\ validationStatus' = "success" =>
                    /\ lastOverlay'.loaded
                    /\ JsQRImage(lastOverlay'.image).found
                    /\ JsQRImage(lastOverlay'.image).data = lastOverlay'.captured
             /\ ~lastOverlay'.loaded => validationStatus' = "failed"]_vars

\* the last standard check found no 2D context or could not read the canvas,
\* the last overlay check could not load its image, and both statuses are
\* Failed
C17_Witness ==
    /\ lastCheck.ran
    /\ lastCheck.capture # "ok"
    /\ standardQrValidationStatus = "failed"
    /\ lastOverlay.ran
    /\ ~lastOverlay.loaded
    /\ validationStatus = "failed"

\* C18 -- independent status instances: the step that completes a standard
\* check leaves the overlay status as it is, the step that completes an
\* overlay check leaves the standard status as it is, and a style change
\* schedules the standard check again while it starts no overlay check and
\* leaves the overlay status as it is.
C18_IndependentStatuses ==
    /\ [][StandardCheckCompletes => validationStatus' = validationStatus]_vars
    /\ [][OverlayCheckCompletes =>
             standardQrValidationStatus' = standardQrValidationStatus]_vars
    /\ [][qrStyleOptions' # qrStyleOptions =>
             /\ validationStatus' = validationStatus
             /\ aiValidation' = aiValidation
             /\ ~NothingToValidate(qrValue, qrCodeStyling') =>
                    validationTimeout' = {[qrValue |-> qrValue]}]_vars

\* the overlay was validated as Success, and the standard check that ran for
\* a style other than the default failed
C18_Witness ==
    /\ lastOverlay.ran
    /\ validationStatus = "success"
    /\ qrStyleOptions # 0
    /\ lastCheck.ran
    /\ lastCheck.style = qrStyleOptions
    /\ standardQrValidationStatus = "failed"


(***************************************************************************)
(*                            PayloadEncoder                               *)
(***************************************************************************)
\* the step runs the payload effect on a changed form
FormChanges == qrData' # qrData \/ qrType' # qrType

\* C12 -- encoding error: when the payload effect fails on a changed form,
\* the error is surfaced, the payload is empty, and no code made for the
\* previous content stays displayed: the surface of the standard code is
\* unmounted, the overlay image is dropped and both statuses are Idle; no
\* art generation starts while the payload is empty; and when the effect
\* succeeds on a changed form no error is left.
C12_EncodingError ==
    /\ [][(FormChanges /\ ~EncodeValue(qrType', qrData').ok) =>
             /\ error' = "encode"
             /\ qrValue' = 0
             /\ qrContainerRef' = "null"
             /\ standardQrValidationStatus' = "idle"
             /\ ~aiQrImage'.has
             /\ validationStatus' = "idle"]_vars
    /\ [][(artTask.pc = "idle" /\ artTask'.pc # "idle") => qrValue # 0]_vars
    /\ [][(FormChanges /\ EncodeValue(qrType', qrData').ok) => error' = NoError]_vars

\* the text-to-token transform cannot represent the profile of a Link Folio
\* form
Unrepresentable(form) == ~Utf8ToBase64(JsonStringify(FolioData(form), wellFormedStringify)).ok

\* C21 -- encoder determinism: the payload made of a form is the payload the
\* encoder makes of the same kind and field values at any other address of
\* the page, for every kind, Link Folio included.
C21_EncoderDeterminism ==
    encoder.made =>
        \A address \in EncoderAddresses :
            LET again == EncodePayload(encoder.type, encoder.data, address,
                                       wellFormedStringify) IN
            /\ again.ok = encoder.ok
            /\ again.ok => again.value = encoder.value

\* the text of a field, the empty string when the field is absent
TextOf(field) == IF field.t = "string" THEN field.s ELSE <<>>

\* C22 -- WiFi grammar: the payload of a WiFi form is "WIFI:S:" ssid ";T:" enc
\* ";", then "P:" password ";" exactly when enc is not "nopass", an absent
\* password counting as the empty string, then ";"; enc is "WPA" when the
\* field is absent.
C22_WifiGrammar ==
    encoder.made /\ encoder.type = "wifi" =>
        LET enc == IF encoder.data.encryption = Undefined THEN <<87, 80, 65>>
                   ELSE encoder.data.encryption.s IN
        /\ encoder.ok
        /\ encoder.value =
               <<87, 73, 70, 73, 58, 83, 58>> \o TextOf(encoder.data.ssid)
               \o <<59, 84, 58>> \o enc \o <<59>>
               \o (IF enc # <<110, 111, 112, 97, 115, 115>>
                   THEN <<80, 58>> \o TextOf(encoder.data.password) \o <<59>> ELSE <<>>)
               \o <<59>>

\* the digits of a text, in order
RECURSIVE DigitsOf(_)
DigitsOf(text) ==
    IF text = <<>> THEN <<>>
    ELSE (IF Head(text) \in 48..57 THEN <<Head(text)>> ELSE <<>>) \o DigitsOf(Tail(text))

\* C23 -- chat deep link grammar: the payload made of a WhatsApp form is
\* "https://wa.me/", then the digits of the phone in order and nothing else
\* of it, then "?text=" and the percent-encoded message exactly when the
\* message is not empty.
C23_ChatDeepLink ==
    encoder.made /\ encoder.ok /\ encoder.type = "whatsapp" =>
        LET domain == <<104, 116, 116, 112, 115, 58, 47, 47, 119, 97, 46, 109, 101, 47>>
            path == DigitsOf(TextOf(encoder.data.phone))
            message == TextOf(encoder.data.message) IN
        encoder.value =
            domain \o path
            \o (IF message # <<>>
                THEN <<63, 116, 101, 120, 116, 61>> \o EncodeURIComponent(message) ELSE <<>>)

\* "+1 (555) 123-4567" with a message was encoded to
\* "https://wa.me/15551234567?text=A%20b%3B%26%C3%A9"
C23_Witness ==
    /\ encoder.made
    /\ encoder.type = "whatsapp"
    /\ encoder.data.phone = JsonString(<<43, 49, 32, 40, 53, 53, 53, 41, 32, 49, 50, 51, 45, 52, 53, 54, 55>>)
    /\ encoder.value =
           <<104, 116, 116, 112, 115, 58, 47, 47, 119, 97, 46, 109, 101, 47, 49, 53, 53, 53, 49, 50, 51, 52, 53, 54, 55>>
           \o <<63, 116, 101, 120, 116, 61, 65, 37, 50, 48, 98, 37, 51, 66, 37, 50, 54, 37, 67, 51, 37, 65, 57>>

\* a timestamp without its '-' and ':', cut before its first '.', with 'Z'
\* appended
RECURSIVE Normalized(_)
Normalized(text) ==
    IF text = <<>> \/ Head(text) = 46 THEN <<90>>
    ELSE (IF Head(text) \in {45, 58} THEN <<>> ELSE <<Head(text)>>)
         \o Normalized(Tail(text))

\* C24 -- calendar event timestamps: the DTSTART and DTEND lines of the
\* payload of an Event form hold the form's timestamps, the empty string for
\* an absent one, without '-' and ':', without the fraction from the first
\* '.', and with a trailing 'Z'.
C24_EventTimestamps ==
    encoder.made /\ encoder.type = "event" =>
        /\ encoder.ok
        /\ encoder.value =
               <<66, 69, 71, 73, 78, 58, 86, 69, 86, 69, 78, 84, 10, 83, 85, 77, 77, 65, 82, 89, 58>>
               \o TextOf(encoder.data.summary)
               \o <<10, 76, 79, 67, 65, 84, 73, 79, 78, 58>> \o TextOf(encoder.data.location)
               \o <<10, 68, 84, 83, 84, 65, 82, 84, 58>>
               \o Normalized(TextOf(encoder.data.dtstart))
               \o <<10, 68, 84, 69, 78, 68, 58>> \o Normalized(TextOf(encoder.data.dtend))
               \o <<10, 68, 69, 83, 67, 82, 73, 80, 84, 73, 79, 78, 58>>
               \o TextOf(encoder.data.description)
               \o <<10, 69, 78, 68, 58, 86, 69, 86, 69, 78, 84>>

\* C13 -- encoder totality: a form of a kind other than Link Folio is always
\* encoded to a payload, whatever its fields hold or lack; encoding fails only
\* for a Link Folio, and only when the text-to-token transform cannot
\* represent its profile.
C13_EncoderTotality ==
    encoder.made =>
        /\ encoder.type # "linkFolio" => encoder.ok
        /\ ~encoder.ok => encoder.type = "linkFolio" /\ Unrepresentable(encoder.data)

(***************************************************************************)
(*                               FolioCodec                                *)
(***************************************************************************)
\* the visitor's browser shows the page of the scanned payload
Scanned == inbound.kind = "payload" /\ viewer.route # "closed"

\* the visitor's browser shows the page of the followed link
Followed == inbound.kind = "link" /\ viewer.route # "closed"

ProducedToken == SearchParamsGet(LocationSearch(folioPayload.value), FolioParam).value
TokenProfile == JsonParse(Base64ToUtf8(ProducedToken)).v

\* C14 -- link filtering on encode: the token of an encoded Link Folio holds
\* a list of links none of which is null or has an empty title or url, and
\* the list is exactly the form's links that have both a title and a url, in
\* the form's order.
C14_LinkFiltering ==
    folioPayload.made /\ folioPayload.ok =>
        LET links == Get(TokenProfile, KeyLinks)
            both == {n \in 1..Len(folioForm.links) :
                        folioForm.links[n].title # <<>> /\ folioForm.links[n].url # <<>>}
            \* the position in the form of the k-th link with both
            nth[k \in 1..Cardinality(both)] ==
                CHOOSE n \in both : Cardinality({m \in both : m <= n}) = k IN
        /\ links.t = "array"
        /\ \A k \in 1..Len(links.kv) :
              /\ links.kv[k].t = "object"
              /\ Get(links.kv[k], KeyTitle) \notin {Undefined, JsonString(<<>>)}
              /\ Get(links.kv[k], KeyUrl) \notin {Undefined, JsonString(<<>>)}
        /\ Len(links.kv) = Cardinality(both)
        /\ \A k \in 1..Cardinality(both) :
              /\ Get(links.kv[k], KeyTitle) = JsonString(folioForm.links[nth[k]].title)
              /\ Get(links.kv[k], KeyUrl) = JsonString(folioForm.links[nth[k]].url)

\* a form whose first link has a url but no title and whose second link has
\* both has been encoded, and the token holds one link
C14_Witness ==
    /\ folioPayload.made
    /\ folioPayload.ok
    /\ Len(folioForm.links) = 2
    /\ folioForm.links[1].title = <<>>
    /\ folioForm.links[1].url # <<>>
    /\ folioForm.links[2].title # <<>>
    /\ folioForm.links[2].url # <<>>
    /\ Len(Get(TokenProfile, KeyLinks).kv) = 1

\* C15 -- optional-field omission: the profile serialized into the token has
\* a key for profileImageUrl, name or title only when the form's field has a
\* value, and then the key holds that value; a field that is absent or the
\* empty string is left out, so it decodes to absence.
C15_OptionalOmission ==
    folioPayload.made /\ folioPayload.ok =>
        \A field \in {[key |-> KeyProfileImageUrl, value |-> folioForm.profileImageUrl],
                       [key |-> KeyName, value |-> folioForm.name],
                       [key |-> KeyTitle, value |-> folioForm.title]} :
            Get(TokenProfile, field.key) =
                IF field.value.t = "string" /\ field.value.s # <<>> THEN field.value
                ELSE Undefined

\* a { title, url } object with both strings
IsLinkObject(v) ==
    v.t = "object" /\ Get(v, KeyTitle).t = "string" /\ Get(v, KeyUrl).t = "string"

\* a token that is empty, not base64, not UTF-8, not JSON, or JSON whose
\* links value is not a list of link objects
IsMalformed(token) ==
    LET bin == Atob(token)
        text == Utf8Decode(bin.bytes)
        json == JsonParse(text.str)
        links == Get(json.v, KeyLinks) IN
    \/ token = <<>>
    \/ ~bin.ok
    \/ ~text.ok
    \/ ~json.ok
    \/ /\ links.t # "undefined"
       /\ ~(links.t = "array" /\ \A n \in 1..Len(links.kv) : IsLinkObject(links.kv[n]))

\* C6: decode failure semantics.  A link whose token is empty or malformed
\* opens the Invalid Link Folio screen: no profile is rendered and the render
\* does not throw.
C6_DecodeFailure ==
    (Followed /\ IsMalformed(inbound.token)) => viewer.page = "invalid"

\* the value has one of the keys of a profile
HasRecognizedKey(v) ==
    /\ v.t = "object"
    /\ \E n \in 1..Len(v.kv) :
          v.kv[n].k \in {KeyProfileImageUrl, KeyName, KeyTitle, KeyLinks}

\* C7: a non-empty token whose parsed value has none of the keys
\* profileImageUrl, name, title, links opens the Invalid Link Folio screen.
C7_RejectsUnrecognized ==
    (/\ Followed
     /\ inbound.token # <<>>
     /\ LET parsedData == JsonParse(Base64ToUtf8(inbound.token)) IN
        parsedData.ok /\ ~HasRecognizedKey(parsedData.v))
    => viewer.page = "invalid"


(***************************************************************************)
(*                          ExportPipeline                                 *)
(***************************************************************************)
\* the stage whose promise the handler is awaiting, if any
InFlight == {"png", "svg", "ai", "zip"}

IsPrefix(a, b) == Len(a) <= Len(b) /\ \A i \in 1..Len(a) : a[i] = b[i]

\* C8 -- abort: once a stage of an export has failed, that export offers no
\* archive, has surfaced exactly one error, is past its last stage, and no
\* further stage is started or percentage reported for it; an export that
\* offered its archive surfaced none.
C8_Abort ==
    /\ [](exportTask.failed =>
            /\ ~exportTask.offered
            /\ exportTask.errors = 1
            /\ exportTask.pc \in {"settle", "idle"})
    /\ [](exportTask.offered => exportTask.errors = 0)
    /\ [][(exportTask.failed /\ exportTask'.failed) =>
             /\ exportTask'.stages = exportTask.stages
             /\ exportTask'.log = exportTask.log
             /\ exportTask'.errors = exportTask.errors]_vars

\* an export whose second stage (the SVG capture) failed, after it settled
C8_Witness ==
    /\ exportTask.failed
    /\ exportTask.stages = <<"png", "svg">>
    /\ exportTask.png # -1
    /\ exportTask.pc = "idle"
    /\ ~isExporting

\* C9 -- progress: the percentages reported within one export never
\* decrease; 100 is reported only by an export none of whose stages failed,
\* in the step that offers the archive, and is its last report.
C9_Progress ==
    /\ \A i \in 1..Len(exportTask.log) : \A j \in i..Len(exportTask.log) :
          exportTask.log[i] <= exportTask.log[j]
    /\ (\E i \in 1..Len(exportTask.log) : exportTask.log[i] = 100) <=>
          exportTask.offered
    /\ exportTask.offered =>
          /\ ~exportTask.failed
          /\ exportTask.log[Len(exportTask.log)] = 100
          /\ exportTask.stages[Len(exportTask.stages)] = "download"
    /\ exportProgress = 100 => exportTask.offered

\* a complete export with the overlay stage: 0, 10, 30, 60, 90, 100
C9_Witness ==
    /\ exportTask.offered
    /\ exportTask.log = <<0, 10, 30, 60, 90, 100>>
    /\ exportProgress = 100

\* C10 -- sequencing: the stages start in the fixed order, one at a time;
\* the overlay stage is skipped exactly when no overlay image exists when
\* the SVG stage completes; an export starts only when none is in flight.
C10_Sequencing ==
    /\ [](\/ IsPrefix(exportTask.stages, <<"png", "svg", "ai", "zip", "download">>)
          \/ IsPrefix(exportTask.stages, <<"png", "svg", "zip", "download">>))
    /\ [](exportTask.pc \in InFlight =>
            exportTask.stages[Len(exportTask.stages)] = exportTask.pc)
    /\ [][(exportTask.pc = "svg" /\ exportTask'.pc \in Delays) =>
             (exportTask'.pc = "delay3" <=> aiQrImage.has)]_vars
    /\ [][(exportTask'.pc = "delay1" /\ exportTask.pc # "delay1") =>
             exportTask.pc = "idle"]_vars

\* the stage an error text names: the fallback text names the compression,
\* the message of a capability's Error names none
StageNamedBy(text) == IF text = "zipFallback" THEN "zip" ELSE "none"

\* C27 -- archive consistency: the entries of an archive that is offered
\* (PNG, SVG, overlay image) were all captured from one payload, whatever
\* edits were made while the export was suspended between its stages.
C27_ArchiveConsistency ==
    exportTask.offered =>
        \A one, other \in {exportTask.png, exportTask.svg, exportTask.ai} \ {-1} :
            one = other

\* C19 -- failing-stage identification: the error surfaced when a stage of
\* the export fails names that stage.
C19_FailingStage ==
    [][(exportTask'.failed /\ ~exportTask.failed) =>
          StageNamedBy(error') = exportTask.pc]_vars

\* an export has ended: the archive was offered or an error was surfaced,
\* not both, the exporting flag is cleared and the progress indicator removed
ExportEnded ==
    /\ exportTask.pc = "idle"
    /\ exportTask.offered # exportTask.failed
    /\ ~isExporting
    /\ exportProgress = -1

\* C20 -- export termination: nothing takes a started export back to idle
\* but the timer of finally, which runs only after the archive was offered or
\* an error surfaced, never both; while the export is in flight the exporting
\* flag is set, so no second one starts; the step in which a stage fails
\* surfaces an error and the step that offers the archive surfaces none; and
\* provided timers run and awaited capabilities return or fail, a started
\* export ends with the exporting flag cleared and the progress indicator
\* removed.
C20_ExportTermination ==
    /\ [][(exportTask.pc # "idle" /\ exportTask'.pc = "idle") =>
             /\ exportTask.pc = "settle"
             /\ exportTask.offered # exportTask.failed]_vars
    /\ [](exportTask.pc # "idle" => isExporting)
    /\ [][(exportTask'.failed /\ ~exportTask.failed) =>
             error' \in ExportErrors /\ ~exportTask'.offered]_vars
    /\ [][(exportTask'.offered /\ ~exportTask.offered) =>
             error' = error /\ ~exportTask'.failed]_vars
    /\ (exportTask.pc # "idle") ~> ExportEnded

\* an export whose compression failed has ended, its error still shown
C20_Witness ==
    /\ ExportEnded
    /\ exportTask.failed
    /\ exportTask.stages = <<"png", "svg", "zip">>
    /\ error \in ExportErrors

(***************************************************************************)
(*                         QrScanner: the claims                           *)
(***************************************************************************)
\* no startScan call is awaiting the camera or play()
NoStartInFlight == scanner.calls = 0 /\ scanner.playing = {}

\* the step is a frame decode: the text read from a frame becomes the result
FrameDecoded == scanner.scannedData # "frameText" /\ scanner'.scannedData = "frameText"

\* C29 -- scanner camera release: whenever scanning is off and no start is
\* still in flight, every stream the camera handed out has had its tracks
\* stopped; and a frame decode records the text, stops the stream on the
\* video element and ends the frame loop.
C29_CameraRelease ==
    /\ [](~scanner.isScanning /\ NoStartInFlight => AllStopped(scanner))
    /\ [][FrameDecoded =>
             /\ ~scanner'.isScanning
             /\ ~scanner'.animationFrameId
             /\ scanner'.srcObject = 0
             /\ scanner'.tracks[scanner.srcObject] = "ended"]_vars

\* C30 -- scanner result/error exclusivity: a scan result and an error
\* message are never both set, and a failed upload is retained only while
\* no result is set.
C30_ResultErrorExclusive ==
    /\ ~(scanner.scannedData # NoData /\ scanner.error # NoError)
    /\ scanner.failedUpload # NoData => scanner.scannedData = NoData


=============================================================================
